---- MODULE Spec2Model ----
(***************************************************************************)
(* Annotation-session model of speedy_qc: MainApp (src/speedy_qc/          *)
(* main_app.py) with the graphics view it drives (src/speedy_qc/           *)
(* graphics.py).  Handlers are operators from an application record        *)
(* ("self") to the application record after the handler; the actions       *)
(* assign the variables from that record.                                  *)
(*                                                                         *)
(* Specifications.  Spec: navigation in any order.  SpecRun: runs of       *)
(* next_unrated_image over decodable images.  SpecGoTo: change_image with  *)
(* any go_to_index.  SpecSave: annotating, saving and starting again on    *)
(* the saved file.                                                         *)
(*                                                                         *)
(* Encodings.  Python values of mixed type are kept apart from each other: *)
(*   viewed_values hold "False", "True" or "FAILED" (Python False, True    *)
(*   and the string "FAILED"); only "False" is falsy.                      *)
(*   checkbox values are 0, 1, 2 or FAIL (the string "FAIL").              *)
(*   radiobutton values are an index >= 0 or PyNone.                       *)
(*   Python indices are 0-based: file_list[i] is PyAt(file_list, i).       *)
(*   Notes are sequences of one-character strings.                          *)
(***************************************************************************)
EXTENDS Integers, Sequences, FiniteSets, TLC

\* ------------------------------------------------------------ bounds
MaxImages == 3
MaxCalls == 4
MaxSteps == 4
MaxBoxes == 2

\* ------------------------------------------------------------ encodings
FAIL == -1
PyNone == -2
FAILED == "FAILED"
NoFinding == "None"
NoException == "None"
NoFile == [none |-> TRUE]
\* self.backup_files = None, kept apart from every list of timestamps
NoList == <<PyNone>>
NoDir == [exists |-> FALSE, files |-> [k \in {} |-> 0]]
\* No SetupWindow was shown.
NoSetup ==
    [is_dir |-> FALSE, images |-> <<>>, json_label |-> NoFile, json_path |-> NoFile,
     new_json |-> TRUE, ok_enabled |-> FALSE, result |-> "none"]

AllFiles == <<"a.png", "b.png", "c.png", "d.png", "e.png">>

VARIABLES
    file_list,          \* self.file_list
    current_index,      \* self.current_index
    viewed_values,      \* self.viewed_values
    rotation,           \* self.rotation
    notes,              \* self.notes
    checkbox_values,    \* self.checkbox_values
    radiobutton_values, \* self.radiobutton_values
    bboxes,             \* self.bboxes: file -> (finding -> list of boxes)
    rect_items,         \* self.image_view.rect_items
    scene,              \* the boxes (ids) that are items of the QGraphicsScene
    aliased,            \* the files f for which self.bboxes[f] is the rect_items dict itself
    current_finding,    \* self.image_view.current_finding
    checkboxes,         \* self.checkboxes: finding -> check state of its QCheckBox
    config,             \* self.config
    loaded,             \* self.loaded
    settings,           \* QSettings: last_file / last_index
    json_file,          \* content of the session file on disk, or NoFile
    should_quit,        \* self.should_quit
    timer_active,       \* self.timer is running
    connected,          \* the connection manager still holds the signal connections
    window_closed,      \* the close event was accepted
    app_quit,           \* QApplication.quit() was called
    exception,          \* the exception that left a handler, or NoException
    next_id,            \* number of BoundingBoxItem objects created so far
    bad_files,          \* environment: the files read_file cannot decode
    backup_dir,         \* environment: self.backup_dir on disk, its files by timestamp
    clock,              \* environment: datetime.datetime.now(), in backup intervals
    max_backups,        \* self.max_backups
    backup_files,       \* self.backup_files
    loading,            \* number of nested load_file calls in progress, 0 between handlers
    setup,              \* the SetupWindow dialog: its labels, tickbox, Ok button and result
    op,                 \* history: the last operation and its arguments
    dialogs,            \* history: the dialogs the last operation showed, in order
    run,                \* history: the current run of consecutive next_unrated_image calls
    steps               \* history: number of user actions so far (bounded edit budget)

vars == <<file_list, current_index, viewed_values, rotation, notes, checkbox_values,
          radiobutton_values, bboxes, rect_items, scene, aliased, current_finding, checkboxes, config,
          loaded, settings, json_file, should_quit, timer_active, connected,
          window_closed, app_quit, exception, next_id, bad_files, backup_dir, clock,
          max_backups, backup_files, loading, setup, op, dialogs, run, steps>>

\* The application object and its environment as one record.
Self ==
    [file_list |-> file_list, current_index |-> current_index,
     viewed_values |-> viewed_values, rotation |-> rotation, notes |-> notes,
     checkbox_values |-> checkbox_values, radiobutton_values |-> radiobutton_values,
     bboxes |-> bboxes, rect_items |-> rect_items, scene |-> scene, aliased |-> aliased,
     current_finding |-> current_finding, checkboxes |-> checkboxes, config |-> config, loaded |-> loaded,
     settings |-> settings, json_file |-> json_file, should_quit |-> should_quit,
     timer_active |-> timer_active, connected |-> connected,
     window_closed |-> window_closed, app_quit |-> app_quit,
     exception |-> exception, next_id |-> next_id, bad_files |-> bad_files,
     backup_dir |-> backup_dir, clock |-> clock, max_backups |-> max_backups,
     backup_files |-> backup_files, loading |-> loading, setup |-> setup,
     dialogs |-> dialogs]

Becomes(s) ==
    /\ file_list' = s.file_list
    /\ current_index' = s.current_index
    /\ viewed_values' = s.viewed_values
    /\ rotation' = s.rotation
    /\ notes' = s.notes
    /\ checkbox_values' = s.checkbox_values
    /\ radiobutton_values' = s.radiobutton_values
    /\ bboxes' = s.bboxes
    /\ rect_items' = s.rect_items
    /\ scene' = s.scene
    /\ aliased' = s.aliased
    /\ current_finding' = s.current_finding
    /\ checkboxes' = s.checkboxes
    /\ config' = s.config
    /\ loaded' = s.loaded
    /\ settings' = s.settings
    /\ json_file' = s.json_file
    /\ should_quit' = s.should_quit
    /\ timer_active' = s.timer_active
    /\ connected' = s.connected
    /\ window_closed' = s.window_closed
    /\ app_quit' = s.app_quit
    /\ exception' = s.exception
    /\ next_id' = s.next_id
    /\ bad_files' = s.bad_files
    /\ backup_dir' = s.backup_dir
    /\ clock' = s.clock
    /\ max_backups' = s.max_backups
    /\ backup_files' = s.backup_files
    /\ loading' = s.loading
    /\ setup' = s.setup
    /\ dialogs' = s.dialogs

Starts(s) ==
    /\ file_list = s.file_list
    /\ current_index = s.current_index
    /\ viewed_values = s.viewed_values
    /\ rotation = s.rotation
    /\ notes = s.notes
    /\ checkbox_values = s.checkbox_values
    /\ radiobutton_values = s.radiobutton_values
    /\ bboxes = s.bboxes
    /\ rect_items = s.rect_items
    /\ scene = s.scene
    /\ aliased = s.aliased
    /\ current_finding = s.current_finding
    /\ checkboxes = s.checkboxes
    /\ config = s.config
    /\ loaded = s.loaded
    /\ settings = s.settings
    /\ json_file = s.json_file
    /\ should_quit = s.should_quit
    /\ timer_active = s.timer_active
    /\ connected = s.connected
    /\ window_closed = s.window_closed
    /\ app_quit = s.app_quit
    /\ exception = s.exception
    /\ next_id = s.next_id
    /\ bad_files = s.bad_files
    /\ backup_dir = s.backup_dir
    /\ clock = s.clock
    /\ max_backups = s.max_backups
    /\ backup_files = s.backup_files
    /\ loading = s.loading
    /\ setup = s.setup
    /\ dialogs = s.dialogs

\* ------------------------------------------------------------ Python helpers
EmptyDict == [k \in {} |-> 0]

Put(d, k, v) == [x \in (DOMAIN d) \cup {k} |-> IF x = k THEN v ELSE d[x]]

Get(d, k, default) == IF k \in DOMAIN d THEN d[k] ELSE default

Range(seq) == {seq[i] : i \in DOMAIN seq}

\* seq[i] with Python's index rule: -Len <= i < Len, negative counts from the end.
PyIndexOK(seq, i) == i >= -Len(seq) /\ i < Len(seq)

PyAt(seq, i) == IF i >= 0 THEN seq[i + 1] ELSE seq[Len(seq) + i + 1]

\* list.index(x): the 0-based index of the first occurrence.
PyIndexOf(seq, x) == (CHOOSE i \in DOMAIN seq : seq[i] = x /\ \A j \in 1..(i - 1) : seq[j] # x) - 1

Truthy(v) == v # "False"

Raise(s, e) == [s EXCEPT !.exception = e]

Ok(s) == s.exception = NoException

\* f(s) unless an exception is already propagating.
Then(s, f(_)) == IF Ok(s) THEN f(s) ELSE s

CurrentFile(s) == PyAt(s.file_list, s.current_index)

Findings(s) == s.config.checkboxes

GroupTitles(s) == [i \in DOMAIN s.config.radiobuttons |-> s.config.radiobuttons[i].title]

\* ------------------------------------------------------------ graphics.py
\* Every write to the rect_items dict is seen through each self.bboxes[f] that is
\* the same dict object.
\* The boxes (ids) in a dict of finding -> list of boxes.
IdsOf(per_finding) ==
    UNION {{per_finding[k][i].id : i \in DOMAIN per_finding[k]} : k \in DOMAIN per_finding}

SetRectItems(s, items) ==
    [s EXCEPT !.rect_items = items,
              !.bboxes = [f \in DOMAIN @ |-> IF f \in s.aliased THEN items ELSE @[f]]]

\* CustomGraphicsView.remove_all_bounding_boxes: rect_items.clear()
\* and scene().removeItem(bbox) for every box of it
remove_all_bounding_boxes(s) ==
    [SetRectItems(s, EmptyDict) EXCEPT !.scene = @ \ IdsOf(s.rect_items)]

\* CustomGraphicsView.add_bboxes(rect_items): every box of the argument is appended
\* to the view's own list for its finding.  When the argument is the view's dict
\* itself the loop runs over the (just cleared) dict.
add_bboxes(s, f) ==
    IF f \in s.aliased THEN s
    ELSE LET arg == Get(s.bboxes, f, EmptyDict)
             keys == (DOMAIN s.rect_items) \cup (DOMAIN arg)
         IN  [SetRectItems(s, [k \in keys |->
                  Get(s.rect_items, k, <<>>) \o Get(arg, k, <<>>)])
                 EXCEPT !.scene = @ \cup IdsOf(arg)]

\* CustomGraphicsView.mousePressEvent .. mouseReleaseEvent: one drawn box.
draw_box(s, rect) ==
    IF s.current_finding = NoFinding THEN s
    ELSE LET box == [id |-> s.next_id, rect |-> rect]
             k == s.current_finding
         IN  [SetRectItems(s, Put(s.rect_items, k, Append(Get(s.rect_items, k, <<>>), box)))
                 EXCEPT !.next_id = @ + 1, !.scene = @ \cup {box.id}]

\* BoundingBoxItem.contextMenuEvent with "Remove" chosen, on the box id
contextMenuEvent(s, id) == [s EXCEPT !.scene = @ \ {id}]

\* ------------------------------------------------------------ persistence
\* MainApp.create_output_dictionary: [self |-> the application afterwards,
\* data |-> the dictionary json.dump writes].  A missing per-file table entry
\* raises KeyError before anything is returned.
GetRects(boxes) == [i \in DOMAIN boxes |-> boxes[i].rect]

BboxOut(per_finding) ==
    [k \in {x \in DOMAIN per_finding : per_finding[x] # <<>>} |-> GetRects(per_finding[k])]

\* CboxOut without the test for "FAILED".
CboxOutStored(s, filename) ==
    [cbox \in DOMAIN s.checkboxes |-> Get(s.checkbox_values[filename], cbox, 0)]

CboxOut(s, filename) ==
    [cbox \in DOMAIN s.checkboxes |->
        IF s.viewed_values[filename] # FAILED
        THEN Get(s.checkbox_values[filename], cbox, 0)
        ELSE FAIL]

FileEntry(s, filename) ==
    [filename |-> filename,
     viewed |-> Get(s.viewed_values, filename, "False"),
     rotation |-> Get(s.rotation, filename, 0),
     notes |-> Get(s.notes, filename, <<>>),
     checkboxes |-> CboxOut(s, filename),
     bboxes |-> BboxOut(s.bboxes[filename]),
     radiobuttons |-> s.radiobutton_values[filename]]

EntryRaises(s, filename) ==
    \/ /\ DOMAIN s.checkboxes # {}
       /\ Get(s.viewed_values, filename, "False") # FAILED
       /\ filename \notin DOMAIN s.checkbox_values
    \/ filename \notin DOMAIN s.radiobutton_values

create_output_dictionary(self) ==
    LET cur == CurrentFile(self)
        s == [self EXCEPT !.bboxes[cur] = self.rect_items,
                          !.aliased = @ \cup {cur}]
    IN  IF \E i \in DOMAIN s.file_list : EntryRaises(s, s.file_list[i])
        THEN [self |-> Raise(s, "KeyError"), data |-> NoFile]
        ELSE [self |-> s,
              data |-> [image_directory |-> "dir",
                        config |-> s.config,
                        files |-> [i \in DOMAIN s.file_list |-> FileEntry(s, s.file_list[i])]]]

\* MainApp.save_json: the file is opened only after the dictionary was built.
WriteFile(out) == IF Ok(out.self) THEN [out.self EXCEPT !.json_file = out.data] ELSE out.self

save_json(self) == WriteFile(create_output_dictionary(self))

\* MainApp.load_bounding_box: one new BoundingBoxItem; self.colors has the
\* configured findings only.
load_bounding_box(s, file, finding, raw_rect) ==
    IF finding \notin Range(Findings(s)) THEN Raise(s, "KeyError")
    ELSE LET box == [id |-> s.next_id, rect |-> raw_rect]
         IN  [s EXCEPT !.bboxes[file] = Put(@, finding, Append(Get(@, finding, <<>>), box)),
                       !.next_id = @ + 1]

RECURSIVE LoadBoxes(_, _, _, _)
LoadBoxes(s, file, finding, coord_sets) ==
    IF coord_sets = <<>> \/ ~Ok(s) THEN s
    ELSE LoadBoxes(load_bounding_box(s, file, finding, Head(coord_sets)),
                   file, finding, Tail(coord_sets))

RECURSIVE LoadFindingBoxes(_, _, _, _)
LoadFindingBoxes(s, file, per_finding, keys) ==
    IF keys = {} \/ ~Ok(s) THEN s
    ELSE LET k == CHOOSE x \in keys : TRUE
         IN  LoadFindingBoxes(LoadBoxes(s, file, k, per_finding[k]),
                              file, per_finding, keys \ {k})

\* MergeDict that stores none of the new values.
MergeDictKeepOld(old, new) == old

\* The loop body of MainApp.load_from_json for one entry of data['files'].
MergeDict(old, new) == [k \in (DOMAIN old) \cup (DOMAIN new) |->
                            IF k \in DOMAIN new THEN new[k] ELSE old[k]]

HydrateInto(table, filename, values) ==
    IF DOMAIN values = {} THEN table
    ELSE Put(table, filename, MergeDict(Get(table, filename, EmptyDict), values))

LoadEntry(s, entry) ==
    Then(LoadFindingBoxes(
             [s EXCEPT !.viewed_values = Put(@, entry.filename, entry.viewed),
                       !.rotation = Put(@, entry.filename, entry.rotation),
                       !.notes = Put(@, entry.filename, entry.notes),
                       !.checkbox_values = HydrateInto(@, entry.filename, entry.checkboxes)],
             entry.filename, entry.bboxes, DOMAIN entry.bboxes),
         LAMBDA s2 : [s2 EXCEPT !.radiobutton_values =
                                    HydrateInto(@, entry.filename, entry.radiobuttons)])

RECURSIVE LoadEntries(_, _)
LoadEntries(s, entries) ==
    IF entries = <<>> \/ ~Ok(s) THEN s
    ELSE LoadEntries(LoadEntry(s, Head(entries)), Tail(entries))

\* MainApp.load_from_json
load_from_json(self, data) ==
    IF data = NoFile THEN Raise(self, "FileNotFoundError")
    ELSE IF "files" \notin DOMAIN data \/ "config" \notin DOMAIN data
    THEN Raise(self, "TypeError")
    ELSE
    LET names == [i \in DOMAIN data.files |-> data.files[i].filename]
        s == [self EXCEPT !.file_list = names,
                          !.config = data.config,
                          !.bboxes = [f \in Range(names) |-> EmptyDict]]
    IN  LoadEntries(s, data.files)

\* ------------------------------------------------------------ MainApp handlers
ShowDialog(s, title) == [s EXCEPT !.dialogs = Append(@, title)]

\* MainApp.save_settings
save_settings(s) ==
    [s EXCEPT !.settings = [last_file |-> CurrentFile(s), last_index |-> s.current_index]]

\* MainApp.save_as: [self, ret]
save_as(self, ui) ==
    IF ui.save_as = "Accepted"
    THEN [self |-> Then(save_json(self), save_settings), ret |-> TRUE]
    ELSE [self |-> self, ret |-> FALSE]

\* MainApp.save_to_json: [self, ret]
save_to_json(self, ui) ==
    IF ~self.loaded THEN save_as(self, ui)
    ELSE [self |-> save_json(self), ret |-> TRUE]

\* MainApp.backup_file, the slot of the backup timer.  fault is what the file
\* system refuses during this call: "makedirs" (the directory cannot be
\* created), "open" (the snapshot cannot be written) or "none".
MakeDirs(s, fault) ==
    IF fault = "makedirs" THEN Raise(s, "OSError")
    ELSE [s EXCEPT !.backup_dir.exists = TRUE]

\* sorted(os.listdir(backup_folder_path))[0]: the names sort by their timestamp.
Oldest(dir) == CHOOSE t \in DOMAIN dir : \A u \in DOMAIN dir : t <= u

RemoveOldest(s) ==
    IF Cardinality(DOMAIN s.backup_dir.files) < s.max_backups THEN s
    ELSE IF DOMAIN s.backup_dir.files = {} THEN Raise(s, "IndexError")
    ELSE [s EXCEPT !.backup_dir.files = [t \in (DOMAIN @) \ {Oldest(@)} |-> @[t]]]

\* save_json(os.path.join(backup_folder_path, backup_file_name)) and the append
\* to self.backup_files.
WriteBackup(out, fault) ==
    IF ~Ok(out.self) THEN out.self
    ELSE IF fault = "open" THEN Raise(out.self, "OSError")
    ELSE [out.self EXCEPT !.backup_dir.files = Put(@, out.self.clock, out.data),
                          !.backup_files = Append(@, out.self.clock)]

backup_file(self, fault) ==
    Then(Then(MakeDirs(self, fault),
              LAMBDA s : RemoveOldest(
                             [s EXCEPT !.backup_files = IF @ = NoList THEN <<>> ELSE @])),
         LAMBDA s : WriteBackup(create_output_dictionary(s), fault))

\* MainApp.closeEvent
\* event.accept() after a save that returned True, event.ignore() otherwise.
AcceptIfSaved(r) ==
    IF ~Ok(r.self) \/ ~r.ret THEN r.self ELSE [r.self EXCEPT !.window_closed = TRUE]

\* The branches of closeEvent on close_msg.exec().
AnswerClose(s, ui) ==
    IF ui.close = "Yes" THEN AcceptIfSaved(save_to_json(s, ui))
    ELSE IF ui.close = "Cancel" THEN s
    ELSE [s EXCEPT !.window_closed = TRUE]

closeEvent(self, ui) == AnswerClose(ShowDialog(self, "Save Changes?"), ui)

\* MainApp.quit_app
quit_app(self, ui) ==
    Then(closeEvent([self EXCEPT !.timer_active = FALSE, !.connected = FALSE], ui),
         LAMBDA s : [s EXCEPT !.app_quit = TRUE])

\* MainApp.load_file
\* The except branch of load_file, after msg_box.exec().
AnswerLoadError(s, ui) ==
    IF ui.load_error = "Quit"
    THEN Then(quit_app(s, ui), LAMBDA q : [q EXCEPT !.should_quit = TRUE])
    ELSE [s EXCEPT !.viewed_values = Put(@, CurrentFile(s), FAILED)]

load_file(self, ui) ==
    IF ~PyIndexOK(self.file_list, self.current_index) THEN Raise(self, "IndexError")
    ELSE IF CurrentFile(self) \notin self.bad_files THEN self
    ELSE AnswerLoadError(ShowDialog(self, "Failed to load file"), ui)

\* MainApp.on_checkbox_changed, with the sender's text as cbox
on_checkbox_changed(s, cbox, state) ==
    IF CurrentFile(s) \notin DOMAIN s.checkbox_values THEN Raise(s, "KeyError")
    ELSE [s EXCEPT !.checkbox_values[CurrentFile(s)] = Put(@, cbox, state),
                   !.current_finding = IF state # 0 THEN cbox ELSE NoFinding]

\* QCheckBox.setCheckState: stateChanged reaches the slot when the state changes
\* and the connection still exists.
setCheckState(s, cbox, state) ==
    LET w == [s EXCEPT !.checkboxes[cbox] = state]
    IN  IF s.checkboxes[cbox] # state /\ s.connected
        THEN on_checkbox_changed(w, cbox, state) ELSE w

\* QCheckBox.nextCheckState: a click steps a tristate box through 0, 1, 2 and
\* toggles any other box between 0 and 2.
NextCheckState(s, cbox) ==
    IF s.config.tristate_checkboxes THEN (s.checkboxes[cbox] + 1) % 3
    ELSE IF s.checkboxes[cbox] = 0 THEN 2 ELSE 0

click_checkbox(s, cbox) == setCheckState(s, cbox, NextCheckState(s, cbox))

\* utils.convert_to_checkstate raises for anything but 0, 1, 2.
ConvertRaises(value) == value \notin {0, 1, 2}

\* MainApp.set_checkbox_value, over the findings still to set.
RECURSIVE SetCheckboxValues(_, _)
SetCheckboxValues(s, todo) ==
    IF todo = <<>> \/ ~Ok(s) THEN s
    ELSE LET filename == CurrentFile(s)
             cbox == Head(todo)
         IN  IF filename \notin DOMAIN s.checkbox_values THEN Raise(s, "TypeError")
             ELSE IF cbox \notin DOMAIN s.checkbox_values[filename] THEN Raise(s, "KeyError")
             ELSE IF ConvertRaises(s.checkbox_values[filename][cbox]) THEN Raise(s, "ValueError")
             ELSE SetCheckboxValues(
                      setCheckState(s, cbox, s.checkbox_values[filename][cbox]), Tail(todo))

set_checkbox_value(s) == SetCheckboxValues(s, Findings(s))

\* MainApp.set_checked_radiobuttons: the toggled signals write back the value
\* that was read, so only the lookup can change anything.
set_checked_radiobuttons(s) ==
    IF s.config.radiobuttons # <<>> /\ CurrentFile(s) \notin DOMAIN s.radiobutton_values
    THEN Raise(s, "AttributeError") ELSE s

\* MainApp.on_radiobutton_changed(name, id, checked)
on_radiobutton_changed(s, name, id, checked) ==
    IF ~checked THEN s
    ELSE IF CurrentFile(s) \notin DOMAIN s.radiobutton_values THEN Raise(s, "KeyError")
    ELSE [s EXCEPT !.radiobutton_values[CurrentFile(s)] = Put(@, name, id)]

\* str.replace("\n", " ").replace(",", ";")
Normalise(text) ==
    [i \in DOMAIN text |-> IF text[i] = "\n" THEN " " ELSE IF text[i] = "," THEN ";" ELSE text[i]]

\* MainApp.on_text_changed with the textbox content
on_text_changed(s, text) == [s EXCEPT !.notes = Put(@, CurrentFile(s), Normalise(text))]

\* QTextEdit.setPlainText(self.notes[current file])
SetPlainText(s) ==
    IF CurrentFile(s) \notin DOMAIN s.notes THEN Raise(s, "KeyError")
    ELSE IF s.connected THEN on_text_changed(s, s.notes[CurrentFile(s)]) ELSE s

\* MainApp.rotate_image_right / rotate_image_left
\* rotate_image_right without the reduction modulo 360.
rotate_image_rightNoWrap(s) == [s EXCEPT !.rotation[CurrentFile(s)] = @ + 90]

rotate_image_right(s) == [s EXCEPT !.rotation[CurrentFile(s)] = (@ + 90) % 360]

rotate_image_left(s) == [s EXCEPT !.rotation[CurrentFile(s)] = (@ + 270) % 360]

\* Python slices seq[a:] and seq[:b]
PyClamp(seq, i) ==
    LET j == IF i < 0 THEN i + Len(seq) ELSE i
    IN  IF j < 0 THEN 0 ELSE IF j > Len(seq) THEN Len(seq) ELSE j

PySliceFrom(seq, a) == SubSeq(seq, PyClamp(seq, a) + 1, Len(seq))

PySliceTo(seq, b) == SubSeq(seq, 1, PyClamp(seq, b))

\* [f for f in seq if not self.viewed_values[f]]
Unviewed(s, seq) == SelectSeq(seq, LAMBDA f : ~Truthy(s.viewed_values[f]))

\* The search of NextUnratedIndex without its second slice file_list[0:current].
NextUnratedIndexForwardOnly(s) ==
    LET after == Unviewed(s, PySliceFrom(s.file_list, s.current_index + 1))
    IN  IF Len(after) > 0 THEN PyIndexOf(s.file_list, after[1]) ELSE s.current_index

\* The cursor arithmetic of MainApp.change_image (main_app.py 1178-1196).
NextUnratedIndex(s) ==
    LET after == Unviewed(s, PySliceFrom(s.file_list, s.current_index + 1))
        before == Unviewed(s, PySliceTo(s.file_list, s.current_index))
        next_unviewed == IF Len(after) > 0 THEN <<after[1]>>
                         ELSE IF Len(before) > 0 THEN <<before[1]>> ELSE <<>>
    IN  IF next_unviewed # <<>> THEN PyIndexOf(s.file_list, next_unviewed[1])
        ELSE s.current_index

PreviousIndex(s) ==
    IF s.current_index - 1 < 0 THEN Len(s.file_list) - 1 ELSE s.current_index - 1

\* NextIndex without the test for the last index.
NextIndexNoWrap(s) == s.current_index + 1

NextIndex(s) ==
    IF s.current_index = Len(s.file_list) - 1 THEN 0 ELSE s.current_index + 1

NewIndex(s, direction, go_to_index) ==
    CASE direction = "previous" -> PreviousIndex(s)
      [] direction = "go_to" -> go_to_index
      [] direction = "next" -> NextIndex(s)
      [] OTHER -> NextUnratedIndex(s)

\* change_image without the assignment to viewed_values.
MarkOutgoingNothing(s, prev_failed) == s

\* The first statements of MainApp.change_image: the outgoing record.
MarkOutgoing(s, prev_failed) ==
    [s EXCEPT !.viewed_values = Put(@, CurrentFile(s), IF ~prev_failed THEN "True" ELSE FAILED)]

\* MainApp.change_image(direction, go_to_index, prev_failed)
\* self.bboxes[current file] = self.image_view.rect_items.copy()
StoreBoxes(s) ==
    [s EXCEPT !.bboxes[CurrentFile(s)] = s.rect_items, !.aliased = @ \ {CurrentFile(s)}]

\* The message box shown when no record of the list is unviewed.
AnnounceAllViewed(s) ==
    IF Len(Unviewed(s, s.file_list)) = 0 THEN ShowDialog(s, "All Images Viewed") ELSE s

MoveCursor(s, direction, go_to_index) ==
    [s EXCEPT !.current_index = NewIndex(s, direction, go_to_index)]

\* The statements of change_image after load_file.
ShowImage(s) ==
    Then(Then(Then(add_bboxes(s, CurrentFile(s)), set_checkbox_value),
              set_checked_radiobuttons),
         SetPlainText)

\* MainApp.change_image(direction, go_to_index, prev_failed)
change_image(self, direction, go_to_index, prev_failed, ui) ==
    Then(load_file(
             MoveCursor(
                 AnnounceAllViewed(
                     save_settings(
                         remove_all_bounding_boxes(
                             StoreBoxes(MarkOutgoing(self, prev_failed))))),
                 direction, go_to_index),
             ui),
         ShowImage)

\* MainApp.previous_image / next_image / next_unrated_image / go_to_image.
\* next_image hands prev_failed over as the second positional argument.
previous_image(self, ui) == change_image(self, "previous", PyNone, FALSE, ui)

next_image(self, prev_failed, ui) == change_image(self, "next", prev_failed, FALSE, ui)

next_unrated_image(self, ui) == change_image(self, "next_unrated", PyNone, FALSE, ui)

go_to_image(self, selected_file, ui) ==
    change_image(self, "go_to", PyIndexOf(self.file_list, selected_file), FALSE, ui)

\* QMessageBox.exec() and QMessageBox.information() run an event loop of their own:
\* a timeout of the backup timer that falls due while the dialog is open runs
\* backup_file inside the handler that opened the dialog.
TickInDialog(s, ticks) ==
    IF ticks /\ s.timer_active THEN backup_file([s EXCEPT !.clock = @ + 1], "none") ELSE s

\* load_file with the timer's position: ticks says whether a timeout falls due
\* while the load-error dialog is open.
load_file_ticked(self, ui, ticks) ==
    IF ~PyIndexOK(self.file_list, self.current_index) THEN Raise(self, "IndexError")
    ELSE IF CurrentFile(self) \notin self.bad_files THEN self
    ELSE Then(TickInDialog(ShowDialog(self, "Failed to load file"), ticks),
              LAMBDA s : AnswerLoadError(s, ui))

AnnounceAllViewedTicked(s, ticks) ==
    IF Len(Unviewed(s, s.file_list)) = 0
    THEN TickInDialog(ShowDialog(s, "All Images Viewed"), ticks)
    ELSE s

\* change_image with the timer's position.
change_image_ticked(self, direction, go_to_index, prev_failed, ui, ticks) ==
    Then(Then(AnnounceAllViewedTicked(
                  save_settings(
                      remove_all_bounding_boxes(
                          StoreBoxes(MarkOutgoing(self, prev_failed)))),
                  ticks),
              LAMBDA s : load_file_ticked(MoveCursor(s, direction, go_to_index), ui, ticks)),
         ShowImage)

\* ------------------------------------------------------------ construction
\* The configurations (config.yml) the sessions are created with.
Group == [title |-> "G", labels |-> <<"x", "y">>]

Configs ==
    {[checkboxes |-> <<>>, radiobuttons |-> <<>>, tristate_checkboxes |-> FALSE],
     [checkboxes |-> <<"A", "B">>, radiobuttons |-> <<Group>>, tristate_checkboxes |-> TRUE]}

NoSettings == EmptyDict

\* The attribute values MainApp.__init__ assigns before anything is read.
Blank(cfg, load_progress, prior_settings, disk, bad) ==
    [file_list |-> <<>>, current_index |-> 0, viewed_values |-> EmptyDict,
     rotation |-> EmptyDict, notes |-> EmptyDict, checkbox_values |-> EmptyDict,
     radiobutton_values |-> EmptyDict, bboxes |-> EmptyDict, rect_items |-> EmptyDict,
     scene |-> {},
     aliased |-> {}, current_finding |-> NoFinding, checkboxes |-> EmptyDict,
     config |-> cfg, loaded |-> load_progress, settings |-> prior_settings,
     json_file |-> disk, should_quit |-> FALSE, timer_active |-> FALSE,
     connected |-> FALSE, window_closed |-> FALSE, app_quit |-> FALSE,
     exception |-> NoException, next_id |-> 0, bad_files |-> bad,
     backup_dir |-> NoDir, clock |-> 0, max_backups |-> 10, backup_files |-> NoList,
     loading |-> 0, setup |-> NoSetup,
     dialogs |-> <<>>]

\* The else branch of MainApp.__init__ (main_app.py 108-142): a new session
\* over the sorted directory listing.
NewSession(s, names) ==
    LET files == Range(names)
        titles == Range(GroupTitles(s))
    IN  [s EXCEPT !.file_list = names,
                  !.viewed_values = [f \in files |-> "False"],
                  !.rotation = [f \in files |-> 0],
                  !.notes = [f \in files |-> <<>>],
                  !.checkbox_values = [f \in files |-> [c \in Range(Findings(s)) |-> 0]],
                  !.bboxes = [f \in files |-> EmptyDict],
                  !.radiobutton_values = [f \in files |-> [g \in titles |-> PyNone]]]

\* MainApp.restore_from_saved_state
restore_from_saved_state(s) ==
    LET has == {"last_file", "last_index"} \subseteq DOMAIN s.settings
        idx == IF ~has THEN s.current_index
               ELSE IF s.settings.last_file \in Range(s.file_list)
                    THEN PyIndexOf(s.file_list, s.settings.last_file)
               ELSE IF s.settings.last_index < Len(s.file_list)
                    THEN s.settings.last_index
               ELSE 0
    IN  AnnounceAllViewed([s EXCEPT !.current_index = idx])

\* MainApp.create_checkboxes: the widgets start from the first image's values.
create_checkboxes(s) ==
    LET filename == CurrentFile(s)
        found == Range(Findings(s))
    IN  IF found = {} THEN s
        ELSE IF filename \notin DOMAIN s.checkbox_values THEN Raise(s, "AttributeError")
        ELSE IF \E c \in found : ConvertRaises(Get(s.checkbox_values[filename], c, 0))
        THEN Raise(s, "ValueError")
        ELSE [s EXCEPT !.checkboxes = [c \in found |-> Get(s.checkbox_values[filename], c, 0)]]

\* MainApp.__init__(app, settings, load_progress) from the first read on.
\* init_connections and the timer start.
StartSignals(s) == [s EXCEPT !.connected = TRUE, !.timer_active = TRUE]

\* __init__ after the first load_file: nothing more when the user chose to quit.
BuildWindow(s) ==
    IF s.should_quit THEN s
    ELSE Then(Then(Then(create_checkboxes(s), set_checked_radiobuttons), StartSignals),
              LAMBDA w : add_bboxes(w, CurrentFile(w)))

\* The session __init__ works on: the saved one, or a new one over the directory.
Session(s, load_progress, names, data) ==
    IF load_progress THEN Then(load_from_json(s, data), restore_from_saved_state)
    ELSE NewSession(s, names)

Construct(cfg, load_progress, names, data, prior_settings, bad, ui) ==
    Then(Then(Then(Session(Blank(cfg, load_progress, prior_settings, data, bad),
                           load_progress, names, data),
                   LAMBDA s : [s EXCEPT !.current_index = 0]),
              LAMBDA s : load_file(s, ui)),
         BuildWindow)

\* ------------------------------------------------------------ inputs
Names(n) == SubSeq(AllFiles, 1, n)

\* The user's answers to the dialogs a handler may open.  The close dialog is only
\* opened after "Quit", and the save-as dialog only after "Yes" in the close dialog.
TryNext == [load_error |-> "Try Next Image", close |-> "No", save_as |-> "Rejected"]

UiChoices ==
    {TryNext} \cup
    [load_error : {"Quit"}, close : {"Yes"}, save_as : {"Accepted", "Rejected"}] \cup
    [load_error : {"Quit"}, close : {"No", "Cancel"}, save_as : {"Rejected"}]

\* The answers that matter to a handler: the dialogs are modal, so an answer exists
\* only when the handler, run with the default answer, opens the load-error dialog.
Answers(s) ==
    IF \E i \in DOMAIN s.dialogs : s.dialogs[i] = "Failed to load file" THEN UiChoices
    ELSE {TryNext}

\* The files of the directory that cv2.imread cannot decode: none, or any one of them.
BadSets(names) == {{}} \cup {{f} : f \in Range(names)}

\* A session file as save_json leaves it when only the viewed flags were touched.
ViewedOnlyEntry(cfg, filename, viewed) ==
    [filename |-> filename, viewed |-> viewed, rotation |-> 0, notes |-> <<>>,
     checkboxes |-> [c \in Range(cfg.checkboxes) |-> IF viewed = FAILED THEN FAIL ELSE 0],
     bboxes |-> EmptyDict,
     radiobuttons |-> [g \in {cfg.radiobuttons[i].title : i \in DOMAIN cfg.radiobuttons} |-> PyNone]]

ViewedOnlyFiles(cfg, names) ==
    {[image_directory |-> "dir", config |-> cfg,
      files |-> [i \in DOMAIN names |-> ViewedOnlyEntry(cfg, names[i], v[names[i]])]] :
        v \in [Range(names) -> {"False", "True", FAILED}]}

\* The answers to the close dialog and to the Save As dialog it may lead to.
CloseAnswers ==
    [load_error : {"Try Next Image"}, close : {"Yes", "No", "Cancel"},
     save_as : {"Accepted", "Rejected"}]

\* ------------------------------------------------------------ history
UnviewedSet(s) == {f \in Range(s.file_list) : ~Truthy(s.viewed_values[f])}

NewRun(s) == [start |-> s.current_index, U0 |-> UnviewedSet(s), trail |-> <<>>]

Alive == exception = NoException /\ ~app_quit /\ ~window_closed /\ ~should_quit

\* ------------------------------------------------------------ navigation
\* The application is started on a directory of n images, with a new session or
\* with the session file data.
Launch(n, cfg, load_progress, data, bad) ==
    \E s0 \in {Construct(cfg, load_progress, Names(n), data, NoSettings, bad, TryNext)} :
        \E ui \in Answers(s0) :
            \E s \in {Construct(cfg, load_progress, Names(n), data, NoSettings, bad, ui)} :
                /\ Starts(s)
                /\ op = [name |-> "init", prev_failed |-> FALSE, go_to_index |-> PyNone,
                         from |-> 0]
                /\ run = NewRun(s)
                /\ steps = 0

InitNav ==
    \E n \in 1..MaxImages, cfg \in Configs, load_progress \in BOOLEAN :
        \E bad \in BadSets(Names(n)) :
            \E data \in IF load_progress THEN ViewedOnlyFiles(cfg, Names(n)) ELSE {NoFile} :
                Launch(n, cfg, load_progress, data, bad)

NavOp(name, prev_failed, go_to_index) ==
    [name |-> name, prev_failed |-> prev_failed, go_to_index |-> go_to_index,
     from |-> current_index]

\* A close request: who raised it, the answer to "Save Changes?", and whether
\* the handler ran save_json (the session has its file, or Save As was accepted)
\* and save_json returned.
CloseOp(name, ui, s) ==
    [name |-> name, answer |-> ui.close,
     saved |-> ui.close = "Yes" /\ (loaded \/ ui.save_as = "Accepted") /\ Ok(s),
     from |-> current_index]

\* The application as a handler finds it: no dialog of an earlier handler is open.
Entered == [Self EXCEPT !.dialogs = <<>>]

DoPreviousImage ==
    /\ Alive
    /\ \E s0 \in {previous_image(Entered, TryNext)} : \E ui \in Answers(s0) :
        \E s \in {previous_image(Entered, ui)} : Becomes(s)
    /\ op' = NavOp("previous", FALSE, PyNone)

DoNextImage ==
    /\ Alive
    /\ \E prev_failed \in BOOLEAN :
        /\ \E s0 \in {next_image(Entered, prev_failed, TryNext)} : \E ui \in Answers(s0) :
            \E s \in {next_image(Entered, prev_failed, ui)} : Becomes(s)
        /\ op' = NavOp("next", prev_failed, PyNone)

DoNextUnratedImage ==
    /\ Alive
    /\ \E s0 \in {next_unrated_image(Entered, TryNext)} : \E ui \in Answers(s0) :
        \E s \in {next_unrated_image(Entered, ui)} : Becomes(s)
    /\ op' = NavOp("next_unrated", FALSE, PyNone)

DoGoToImage ==
    /\ Alive
    /\ \E selected_file \in Range(file_list) :
        /\ \E s0 \in {go_to_image(Entered, selected_file, TryNext)} : \E ui \in Answers(s0) :
            \E s \in {go_to_image(Entered, selected_file, ui)} : Becomes(s)
        /\ op' = NavOp("go_to", FALSE, PyIndexOf(file_list, selected_file))

\* Navigation in any order.
PreviousImage == DoPreviousImage /\ UNCHANGED <<run, steps>>

NextImage == DoNextImage /\ UNCHANGED <<run, steps>>

NextUnratedImage == DoNextUnratedImage /\ UNCHANGED <<run, steps>>

GoToImage == DoGoToImage /\ UNCHANGED <<run, steps>>

Next == PreviousImage \/ NextImage \/ NextUnratedImage \/ GoToImage

Init == InitNav

Spec == Init /\ [][Next]_vars

\* ------------------------------------------------------------ runs of next_unrated_image
\* Every image decodes.  Any navigation sets the scene; from the first
\* next_unrated_image on only next_unrated_image is called, and run records where
\* the calls started, which records were NotViewed then, and where each call
\* left the cursor.
InitRun ==
    \E n \in 1..MaxImages, cfg \in Configs, load_progress \in BOOLEAN :
        \E data \in IF load_progress THEN ViewedOnlyFiles(cfg, Names(n)) ELSE {NoFile} :
            Launch(n, cfg, load_progress, data, {})

RunStartsAfter ==
    run' = [start |-> current_index',
            U0 |-> {f \in Range(file_list') : ~Truthy(viewed_values'[f])},
            trail |-> <<>>]

ScenePrevious == run.trail = <<>> /\ DoPreviousImage /\ RunStartsAfter /\ UNCHANGED steps

SceneNext == run.trail = <<>> /\ DoNextImage /\ RunStartsAfter /\ UNCHANGED steps

SceneGoTo == run.trail = <<>> /\ DoGoToImage /\ RunStartsAfter /\ UNCHANGED steps

RunNextUnrated ==
    /\ Len(run.trail) < MaxCalls
    /\ DoNextUnratedImage
    /\ run' = [run EXCEPT !.trail = Append(@, current_index')]
    /\ UNCHANGED steps

NextRun == ScenePrevious \/ SceneNext \/ SceneGoTo \/ RunNextUnrated

SpecRun == InitRun /\ [][NextRun]_vars

\* ------------------------------------------------------------ change_image("go_to", i)
\* change_image called with any integer near the list's bounds as go_to_index.
GoToIndices == (-(MaxImages + 1))..(MaxImages + 1)

ChangeImageGoTo ==
    /\ Alive
    /\ \E go_to_index \in GoToIndices :
        /\ \E s0 \in {change_image(Entered, "go_to", go_to_index, FALSE, TryNext)} :
            \E ui \in Answers(s0) :
                \E s \in {change_image(Entered, "go_to", go_to_index, FALSE, ui)} : Becomes(s)
        /\ op' = NavOp("go_to", FALSE, go_to_index)
    /\ UNCHANGED <<run, steps>>

NextGoTo == ChangeImageGoTo

SpecGoTo == InitNav /\ [][NextGoTo]_vars

\* ------------------------------------------------------------ annotate, save, load
\* A session file whose first entry has a checkbox key its config does not list.
StaleFile ==
    [image_directory |-> "dir",
     config |-> [checkboxes |-> <<"A", "B">>, radiobuttons |-> <<Group>>,
                 tristate_checkboxes |-> TRUE],
     files |-> <<[filename |-> "a.png", viewed |-> "True", rotation |-> 0, notes |-> <<>>,
                  checkboxes |-> [k \in {"A", "C"} |-> IF k = "A" THEN 1 ELSE 2],
                  bboxes |-> EmptyDict,
                  radiobuttons |-> [g \in {"G"} |-> PyNone]]>>]

\* What the user types into the notes box, and the rectangles the user draws.
Texts == {<<"x">>, <<",", "\n">>}

Rects == {<<0, 0, 4, 2>>}

InitSave ==
    \/ \E n \in 1..MaxImages, cfg \in Configs :
          \E bad \in BadSets(Names(n)) : Launch(n, cfg, FALSE, NoFile, bad)
    \/ \E bad \in BadSets(Names(1)) : Launch(1, StaleFile.config, TRUE, StaleFile, bad)

Budget == Alive /\ steps < MaxSteps

Edited == op' = NavOp("edit", FALSE, PyNone) /\ steps' = steps + 1 /\ UNCHANGED run

ClickCheckbox ==
    /\ Budget
    /\ \E cbox \in DOMAIN checkboxes : \E s \in {click_checkbox(Entered, cbox)} : Becomes(s)
    /\ Edited

ClickRadiobutton ==
    /\ Budget
    /\ \E g \in DOMAIN config.radiobuttons :
         \E id \in 0..(Len(config.radiobuttons[g].labels) - 1) :
            \E s \in {on_radiobutton_changed(Entered, config.radiobuttons[g].title, id, TRUE)} :
                Becomes(s)
    /\ Edited

TypeNotes ==
    /\ Budget
    /\ \E text \in Texts : \E s \in {on_text_changed(Entered, text)} : Becomes(s)
    /\ Edited

RotateRight ==
    /\ Budget
    /\ \E s \in {rotate_image_right(Entered)} : Becomes(s)
    /\ Edited

RotateLeft ==
    /\ Budget
    /\ \E s \in {rotate_image_left(Entered)} : Becomes(s)
    /\ Edited

DrawBox ==
    /\ Budget
    /\ current_finding # NoFinding
    /\ next_id < MaxBoxes
    /\ \E rect \in Rects : \E s \in {draw_box(Entered, rect)} : Becomes(s)
    /\ Edited

TurnPage == Budget /\ DoNextImage /\ steps' = steps + 1 /\ UNCHANGED run

\* The Save action; the Save As dialog of a new session is accepted or rejected.
Save ==
    /\ Budget
    /\ \E answer \in {"Accepted", "Rejected"} :
         \E r \in {save_to_json(Entered, [TryNext EXCEPT !.save_as = answer])} :
            /\ Becomes(r.self)
            /\ op' = NavOp(IF Ok(r.self) /\ r.ret THEN "save" ELSE "save_refused",
                           FALSE, PyNone)
    /\ steps' = steps + 1
    /\ UNCHANGED run

\* The application is started again on the session file the last save wrote.
Relaunch ==
    /\ steps < MaxSteps
    /\ json_file # NoFile
    /\ \E s0 \in {Construct(json_file.config, TRUE, file_list, json_file, settings,
                              bad_files, TryNext)} :
         \E ui \in Answers(s0) :
            \E s \in {Construct(json_file.config, TRUE, file_list, json_file, settings,
                                 bad_files, ui)} : Becomes(s)
    /\ op' = [name |-> "load", prev_failed |-> FALSE, go_to_index |-> PyNone, from |-> 0]
    /\ steps' = steps + 1
    /\ UNCHANGED run

NextSave ==
    \/ ClickCheckbox \/ ClickRadiobutton \/ TypeNotes \/ RotateRight \/ RotateLeft
    \/ DrawBox \/ TurnPage \/ Save \/ Relaunch

SpecSave == InitSave /\ [][NextSave]_vars

\* ------------------------------------------------------------ MainWindow (main_window.py)
\* The window the console script opens.  It keeps the boxes of the image on
\* screen in the frame of the rotated image and the boxes of every other image
\* in the frame of the unrotated image.  A box is [id, rect, unrotated]: rect
\* is the rectangle the BoundingBoxItem holds, unrotated is the rectangle the
\* user marked, expressed in the unrotated image (history, never read by a
\* handler).  Rectangles are <<x, y, width, height>>.
\* self.pixmap_item.boundingRect().center(): every image is 8 pixels wide and high.
PixmapCentre == <<4, 4>>

\* The loop body of MainWindow.rotate_bounding_boxes for one rectangle: the
\* centre is turned about the centre of the pixmap, width and height are swapped
\* for a quarter turn.  Coordinates are doubled while the centre is moved.
TurnedRect(rect, rotation_angle) ==
    LET a == rotation_angle % 360
        cos == IF a = 0 THEN 1 ELSE IF a = 180 THEN -1 ELSE 0
        sin == IF a = 90 THEN 1 ELSE IF a = 270 THEN -1 ELSE 0
        x == 2 * rect[1] + rect[3] - 2 * PixmapCentre[1]
        y == 2 * rect[2] + rect[4] - 2 * PixmapCentre[2]
        new_width == IF a % 180 # 0 THEN rect[4] ELSE rect[3]
        new_height == IF a % 180 # 0 THEN rect[3] ELSE rect[4]
    IN  <<(x * cos - y * sin + 2 * PixmapCentre[1] - new_width) \div 2,
          (x * sin + y * cos + 2 * PixmapCentre[2] - new_height) \div 2,
          new_width, new_height>>

\* How often the loop of rotate_bounding_boxes meets the item id.
Occurrences(per_finding, id) ==
    Cardinality({ki \in UNION {{<<k, i>> : i \in DOMAIN per_finding[k]} : k \in DOMAIN per_finding} :
                    per_finding[ki[1]][ki[2]].id = id})

\* bbox.setRect for every item the loop meets; the items are objects, so the dict
\* of the view and the dicts of self.bboxes show the same rectangle.
TurnItems(per_finding, looped, angle) ==
    [k \in DOMAIN per_finding |->
        [i \in DOMAIN per_finding[k] |->
            [per_finding[k][i] EXCEPT
                !.rect = TurnedRect(@, angle * Occurrences(looped, per_finding[k][i].id))]]]

\* MainWindow.rotate_bounding_boxes(filename, rotation_angle, reverse)
MainWindow_rotate_bounding_boxes(s, filename, rotation_angle, reverse) ==
    IF rotation_angle = 0 THEN s
    ELSE [s EXCEPT
            !.rect_items = TurnItems(@, s.bboxes[filename],
                                     IF reverse THEN rotation_angle ELSE -rotation_angle),
            !.bboxes = [f \in DOMAIN @ |->
                          TurnItems(@[f], s.bboxes[filename],
                                    IF reverse THEN rotation_angle ELSE -rotation_angle)]]

\* MainWindow.rotate_image_right / rotate_image_left
MainWindow_rotate_image_right(s) ==
    MainWindow_rotate_bounding_boxes(
        [StoreBoxes(s) EXCEPT !.rotation[CurrentFile(s)] = (@ - 90) % 360],
        CurrentFile(s), -90, FALSE)

MainWindow_rotate_image_left(s) ==
    MainWindow_rotate_bounding_boxes(
        [StoreBoxes(s) EXCEPT !.rotation[CurrentFile(s)] = (@ + 90) % 360],
        CurrentFile(s), 90, FALSE)

\* CustomGraphicsView.mousePressEvent .. mouseReleaseEvent of main_window.py: one
\* box drawn on the image as it is shown.
MainWindow_draw_box(s, rect) ==
    IF s.current_finding = NoFinding THEN s
    ELSE [SetRectItems(s, Put(s.rect_items, s.current_finding,
                              Append(Get(s.rect_items, s.current_finding, <<>>),
                                     [id |-> s.next_id, rect |-> rect,
                                      unrotated |-> TurnedRect(rect, s.rotation[CurrentFile(s)])])))
             EXCEPT !.next_id = @ + 1, !.scene = @ \cup {s.next_id}]

\* MainWindow.save_json: the loop over the file list turns the boxes of every
\* file back by the file's rotation, in place, and then reads their rectangles.
RECURSIVE TurnBackAll(_, _)
TurnBackAll(s, files) ==
    IF files = <<>> THEN s
    ELSE TurnBackAll(MainWindow_rotate_bounding_boxes(
                         s, Head(files), Get(s.rotation, Head(files), 0), TRUE),
                     Tail(files))

MainWindow_FileEntry(s, filename) ==
    [filename |-> filename,
     viewed |-> Get(s.viewed_values, filename, "False"),
     rotation |-> Get(s.rotation, filename, 0),
     notes |-> Get(s.notes, filename, <<>>),
     checkboxes |-> CboxOut(s, filename),
     bboxes |-> BboxOut(s.bboxes[filename])]

MainWindow_WriteFile(s) ==
    [s EXCEPT !.json_file =
        [files |-> [i \in DOMAIN s.file_list |-> MainWindow_FileEntry(s, s.file_list[i])]]]

MainWindow_save_json(self) ==
    MainWindow_WriteFile(
        TurnBackAll([self EXCEPT !.bboxes[CurrentFile(self)] = self.rect_items,
                                 !.aliased = @ \cup {CurrentFile(self)}],
                    self.file_list))

\* MainWindow.save_as and MainWindow.save_to_json: [self, ret].  Neither has a
\* return statement on the path that saves, so ret is None there; ret holds
\* the truth value the caller tests.
MainWindow_save_as(self, ui) ==
    IF ui.save_as = "Accepted"
    THEN [self |-> save_settings(MainWindow_save_json(self)), ret |-> FALSE]
    ELSE [self |-> self, ret |-> FALSE]

MainWindow_save_to_json(self, ui) ==
    IF ~self.loaded THEN MainWindow_save_as(self, ui)
    ELSE [self |-> MainWindow_save_json(self), ret |-> FALSE]

\* MainWindow.closeEvent: the branches on close_msg_box.exec(); the event is
\* accepted when no branch ignored it.
MainWindow_AnswerClose(s, ui) ==
    IF ui.close = "Yes" THEN AcceptIfSaved(MainWindow_save_to_json(s, ui))
    ELSE IF ui.close = "Cancel" THEN s
    ELSE [s EXCEPT !.window_closed = TRUE]

MainWindow_closeEvent(self, ui) == MainWindow_AnswerClose(ShowDialog(self, "Save Changes?"), ui)

\* MainWindow.set_checkbox_value: setChecked(value) for every finding; the
\* stateChanged signal runs on_checkbox_changed, whose statements are those of
\* MainApp.on_checkbox_changed.
RECURSIVE MainWindow_SetChecked(_, _)
MainWindow_SetChecked(s, todo) ==
    IF todo = <<>> \/ ~Ok(s) THEN s
    ELSE MainWindow_SetChecked(
             setCheckState(s, Head(todo),
                           IF s.checkbox_values[CurrentFile(s)][Head(todo)] # 0 THEN 2 ELSE 0),
             Tail(todo))

MainWindow_set_checkbox_value(s) == MainWindow_SetChecked(s, Findings(s))

\* The cursor arithmetic of MainWindow.change_image: the first record after the
\* cursor, cyclically, that is not viewed; the next index when there is none.
MainWindow_MoveCursor(s, direction) ==
    LET n == Len(s.file_list)
        ahead == {d \in 1..(n - 1) :
                     ~Truthy(s.viewed_values[PyAt(s.file_list, (s.current_index + d) % n)])}
    IN  IF direction = "previous" THEN [s EXCEPT !.current_index = PreviousIndex(s)]
        ELSE IF ahead = {}
        THEN [ShowDialog(s, "All Images Viewed") EXCEPT !.current_index = NextIndex(s)]
        ELSE [s EXCEPT !.current_index =
                 (s.current_index + CHOOSE d \in ahead : \A e \in ahead : d <= e) % n]

\* The statements of MainWindow.change_image after load_file.
MainWindow_ShowImage(s) ==
    MainWindow_set_checkbox_value(
        add_bboxes(MainWindow_rotate_bounding_boxes(
                       s, CurrentFile(s), s.rotation[CurrentFile(s)], FALSE),
                   CurrentFile(s)))

\* The statements of MainWindow.change_image before load_file.
MainWindow_Leave(self, direction, prev_failed) ==
    MainWindow_MoveCursor(
        save_settings(
            remove_all_bounding_boxes(
                MainWindow_rotate_bounding_boxes(
                    StoreBoxes(MarkOutgoing(self, prev_failed)),
                    CurrentFile(self), self.rotation[CurrentFile(self)], TRUE))),
        direction)

\* MainWindow.load_file and MainWindow.change_image(direction, prev_failed).
\* load_file answers a file that cannot be read with next_image(prev_failed=True)
\* and returns to its caller afterwards; when no file of the list can be read the
\* calls nest until Python's recursion limit.
RECURSIVE MainWindow_change_image(_, _, _)
MainWindow_load_file(s) ==
    IF CurrentFile(s) \notin s.bad_files THEN s
    ELSE IF Range(s.file_list) \subseteq s.bad_files
    THEN Raise(ShowDialog(s, "Failed to load file"), "RecursionError")
    ELSE MainWindow_change_image(ShowDialog(s, "Failed to load file"), "next", TRUE)

MainWindow_change_image(self, direction, prev_failed) ==
    Then(MainWindow_load_file(MainWindow_Leave(self, direction, prev_failed)),
         MainWindow_ShowImage)

\* MainWindow.__init__ on a directory of .dcm files, without a session file.  The
\* first load_file runs before the sliders exist, so a first file that cannot be
\* read ends __init__ with the AttributeError of the change_image it calls, once
\* that change_image has found a file that can be read; when there is none the
\* calls nest until Python's recursion limit.
MainWindow_Construct(names, findings, bad) ==
    LET s == Blank([checkboxes |-> findings, radiobuttons |-> <<>>,
                    tristate_checkboxes |-> FALSE], FALSE, NoSettings, NoFile, bad)
    IN  IF Range(names) \subseteq bad
        THEN Raise([s EXCEPT !.file_list = names], "RecursionError")
        ELSE IF names[1] \in bad THEN Raise([s EXCEPT !.file_list = names], "AttributeError")
        ELSE [s EXCEPT !.file_list = names,
                       !.viewed_values = [f \in Range(names) |-> "False"],
                       !.rotation = [f \in Range(names) |-> 0],
                       !.notes = [f \in Range(names) |-> <<>>],
                       !.checkbox_values = [f \in Range(names) |-> [c \in Range(findings) |-> 0]],
                       !.bboxes = [f \in Range(names) |-> EmptyDict],
                       !.checkboxes = [c \in Range(findings) |-> 0],
                       !.connected = TRUE, !.timer_active = TRUE]

\* ------------------------------------------------------------ the MainWindow session
\* A MainWindow over a directory of images with one finding: boxes are drawn,
\* images are turned, the cursor is moved and the session is saved, in any order.
MaxActions == 5

InitWindow ==
    \E n \in 1..MaxImages : \E bad \in BadSets(Names(n)) :
        /\ Starts(MainWindow_Construct(Names(n), <<"A">>, bad))
        /\ op = [name |-> "init", prev_failed |-> FALSE, go_to_index |-> PyNone, from |-> 0]
        /\ run = [start |-> 0, U0 |-> {}, trail |-> <<>>]
        /\ steps = 0

WindowBudget == Alive /\ steps < MaxActions

WindowDid(name) == op' = NavOp(name, FALSE, PyNone) /\ steps' = steps + 1 /\ UNCHANGED run

WindowClickCheckbox ==
    /\ WindowBudget
    /\ \E cbox \in DOMAIN checkboxes : \E s \in {click_checkbox(Entered, cbox)} : Becomes(s)
    /\ WindowDid("edit")

WindowDrawBox ==
    /\ WindowBudget
    /\ current_finding # NoFinding
    /\ next_id < MaxBoxes
    /\ \E rect \in Rects : \E s \in {MainWindow_draw_box(Entered, rect)} : Becomes(s)
    /\ WindowDid("edit")

WindowRotateRight ==
    /\ WindowBudget
    /\ \E s \in {MainWindow_rotate_image_right(Entered)} : Becomes(s)
    /\ WindowDid("edit")

WindowRotateLeft ==
    /\ WindowBudget
    /\ \E s \in {MainWindow_rotate_image_left(Entered)} : Becomes(s)
    /\ WindowDid("edit")

WindowNext ==
    /\ WindowBudget
    /\ \E s \in {MainWindow_change_image(Entered, "next", FALSE)} : Becomes(s)
    /\ WindowDid("next")

WindowPrevious ==
    /\ WindowBudget
    /\ \E s \in {MainWindow_change_image(Entered, "previous", FALSE)} : Becomes(s)
    /\ WindowDid("previous")

\* The Save key; the Save As dialog of a new session is accepted or rejected.
WindowSave ==
    /\ WindowBudget
    /\ \E answer \in {"Accepted", "Rejected"} :
         /\ \E r \in {MainWindow_save_to_json(Entered, [TryNext EXCEPT !.save_as = answer])} :
               Becomes(r.self)
         /\ op' = NavOp(IF answer = "Accepted" THEN "save" ELSE "save_refused", FALSE, PyNone)
    /\ steps' = steps + 1
    /\ UNCHANGED run

\* The window manager asks the window to close.
WindowClose ==
    /\ WindowBudget
    /\ \E ui \in CloseAnswers :
         \E s \in {MainWindow_closeEvent(Entered, ui)} :
            Becomes(s) /\ op' = CloseOp("close", ui, s)
    /\ steps' = steps + 1
    /\ UNCHANGED run

NextWindow ==
    \/ WindowClickCheckbox \/ WindowDrawBox \/ WindowRotateRight \/ WindowRotateLeft
    \/ WindowNext \/ WindowPrevious \/ WindowSave \/ WindowClose

SpecWindow == InitWindow /\ [][NextWindow]_vars

\* ------------------------------------------------------------ the MainWindow session resumed
\* MainWindow.load_bounding_box run for every coordinate set of one entry: the test
\* "finding in self.bboxes" looks the finding up among the file names, so each
\* box replaces the list of its finding and the last one read stays.
MainWindow_LoadBoxes(s, file, per_finding) ==
    LET found == {k \in DOMAIN per_finding : per_finding[k] # <<>>}
        last(k) == [id |-> s.next_id + Len(per_finding[k]) - 1,
                    rect |-> per_finding[k][Len(per_finding[k])]]
    IN  IF found = {} THEN s
        ELSE IF ~(found \subseteq Range(Findings(s))) THEN Raise(s, "KeyError")
        ELSE [s EXCEPT !.bboxes[file] =
                           [k \in (DOMAIN @) \cup found |->
                               IF k \in found THEN <<last(k)>> ELSE @[k]],
                       !.next_id = @ + MaxBoxes]

\* MainWindow.load_from_json (the settings' new_json is not set): the loop body
\* for one entry, and the loop.
MainWindow_LoadEntry(s, entry) ==
    MainWindow_LoadBoxes(
        [s EXCEPT !.viewed_values = Put(@, entry.filename, entry.viewed),
                  !.rotation = Put(@, entry.filename, entry.rotation),
                  !.notes = Put(@, entry.filename, entry.notes),
                  !.checkbox_values = HydrateInto(@, entry.filename, entry.checkboxes)],
        entry.filename, entry.bboxes)

RECURSIVE MainWindow_load_from_json(_, _)
MainWindow_load_from_json(s, entries) ==
    IF entries = <<>> \/ ~Ok(s) THEN s
    ELSE MainWindow_load_from_json(MainWindow_LoadEntry(s, Head(entries)), Tail(entries))

\* MainWindow.restore_from_saved_state
MainWindow_RestoredIndex(s) ==
    IF ~({"last_file", "last_index"} \subseteq DOMAIN s.settings) THEN s.current_index
    ELSE IF s.settings.last_file \in Range(s.file_list)
    THEN PyIndexOf(s.file_list, s.settings.last_file)
    ELSE s.settings.last_index

MainWindow_restore_from_saved_state(s) ==
    LET idx == MainWindow_RestoredIndex(s)
        unviewed_files == Unviewed(s, PySliceFrom(s.file_list, idx + 1))
        viewed_files == SelectSeq(PySliceTo(s.file_list, idx + 1),
                                  LAMBDA f : Truthy(s.viewed_values[f]))
    IN  IF Len(unviewed_files) = 0
        THEN ShowDialog([s EXCEPT !.current_index = idx], "All Images Viewed")
        ELSE [s EXCEPT !.current_index = idx, !.file_list = unviewed_files \o viewed_files]

\* MainWindow.__init__ from the window title on: the first image is read and
\* shown with its boxes, and the checkboxes are created from its values.
MainWindow_FirstImage(s) ==
    IF ~PyIndexOK(s.file_list, s.current_index) THEN Raise(s, "IndexError")
    ELSE IF Range(s.file_list) \subseteq s.bad_files THEN Raise(s, "RecursionError")
    ELSE IF CurrentFile(s) \in s.bad_files THEN Raise(s, "AttributeError")
    ELSE [add_bboxes(MainWindow_rotate_bounding_boxes(
                         s, CurrentFile(s), s.rotation[CurrentFile(s)], FALSE),
                     CurrentFile(s))
            EXCEPT !.checkboxes =
                [c \in Range(Findings(s)) |->
                    IF Get(s.checkbox_values[CurrentFile(s)], c, 0) # 0 THEN 2 ELSE 0]]

\* MainWindow.__init__ on a directory and the session file data of an earlier
\* session, with the settings that session left.
MainWindow_Resume(names, findings, data, prior_settings, bad) ==
    Then(Then(MainWindow_load_from_json(
                  [MainWindow_Construct(names, findings, {}) EXCEPT
                      !.bad_files = bad, !.loaded = TRUE, !.settings = prior_settings,
                      !.json_file = data],
                  data.files),
              MainWindow_restore_from_saved_state),
         MainWindow_FirstImage)

\* The session files MainWindow.save_json leaves when only viewed flags were set.
MainWindow_ViewedOnlyFiles(names, findings) ==
    {[files |-> [i \in DOMAIN names |->
                    [filename |-> names[i], viewed |-> v[names[i]], rotation |-> 0,
                     notes |-> <<>>, checkboxes |-> [c \in Range(findings) |-> 0],
                     bboxes |-> EmptyDict]]] :
        v \in [Range(names) -> {"False", "True"}]}

\* The settings an earlier session left: none, or a last file and a last index,
\* of this directory or of another one.
LastSettings(names) ==
    {NoSettings} \cup
    [last_file : Range(names) \cup {"e.png"}, last_index : 0..Len(names)]

InitResume ==
    \E n \in 1..MaxImages :
        \E data \in MainWindow_ViewedOnlyFiles(Names(n), <<"A">>),
           prior_settings \in LastSettings(Names(n)), bad \in BadSets(Names(n)) :
            /\ Starts(MainWindow_Resume(Names(n), <<"A">>, data, prior_settings, bad))
            /\ op = [name |-> "load", prev_failed |-> FALSE, go_to_index |-> PyNone,
                     from |-> 0]
            /\ run = [start |-> 0, U0 |-> {}, trail |-> <<>>]
            /\ steps = 0

NextResume == WindowNext \/ WindowPrevious \/ WindowClickCheckbox

SpecResume == InitResume /\ [][NextResume]_vars

\* ------------------------------------------------------------ close and exit
\* A MainApp session is edited, saved, asked to close by the window manager and
\* left through the Exit action, in any order.
InitClose ==
    \/ \E n \in 1..MaxImages, cfg \in Configs : Launch(n, cfg, FALSE, NoFile, {})
    \/ \E n \in 1..MaxImages, cfg \in Configs :
          \E data \in ViewedOnlyFiles(cfg, Names(n)) : Launch(n, cfg, TRUE, data, {})

CloseRequest ==
    /\ Budget
    /\ \E ui \in CloseAnswers :
         \E s \in {closeEvent(Entered, ui)} :
            Becomes(s) /\ op' = CloseOp("close", ui, s)
    /\ steps' = steps + 1
    /\ UNCHANGED run

ExitAction ==
    /\ Budget
    /\ \E ui \in CloseAnswers :
         \E s \in {quit_app(Entered, ui)} :
            Becomes(s) /\ op' = CloseOp("exit", ui, s)
    /\ steps' = steps + 1
    /\ UNCHANGED run

NextClose == ClickCheckbox \/ TurnPage \/ Save \/ CloseRequest \/ ExitAction

SpecClose == InitClose /\ [][NextClose]_vars

\* ------------------------------------------------------------ backups
\* The backup timer fires while the user pages through the images; the file
\* system may refuse the directory or the snapshot.  The application may be
\* started again with another max_backups in its config; the backup directory
\* stays as the earlier session left it.
MaxBackups == 2

Faults == {"none", "makedirs", "open"}

InitBackup ==
    \E n \in 1..MaxImages, cfg \in Configs, m \in 1..MaxBackups :
        \E s \in {Construct(cfg, FALSE, Names(n), NoFile, NoSettings, {}, TryNext)} :
            /\ Starts([s EXCEPT !.max_backups = m])
            /\ op = [name |-> "init", prev_failed |-> FALSE, go_to_index |-> PyNone,
                     from |-> 0]
            /\ run = NewRun(s)
            /\ steps = 0

BackupTick ==
    /\ Budget
    /\ timer_active
    /\ \E fault \in Faults :
         \E s \in {backup_file([Entered EXCEPT !.clock = @ + 1], fault)} :
            /\ Becomes(s)
            /\ op' = NavOp(IF fault = "none" THEN "backup" ELSE "backup_refused",
                           FALSE, PyNone)
    /\ steps' = steps + 1
    /\ UNCHANGED run

BackupTurnPage == Budget /\ DoNextImage /\ steps' = steps + 1 /\ UNCHANGED run

StartAgain ==
    /\ steps < MaxSteps
    /\ \E m \in 1..MaxBackups :
         \E s \in {Construct(config, FALSE, file_list, NoFile, settings, {}, TryNext)} :
            Becomes([s EXCEPT !.max_backups = m, !.backup_dir = backup_dir,
                              !.clock = clock])
    /\ op' = [name |-> "init", prev_failed |-> FALSE, go_to_index |-> PyNone, from |-> 0]
    /\ steps' = steps + 1
    /\ UNCHANGED run

NextBackup == BackupTick \/ BackupTurnPage \/ StartAgain

SpecBackup == InitBackup /\ [][NextBackup]_vars

\* ------------------------------------------------------------ ticks and navigation
\* next_image during which the backup timer falls due, should a dialog be open.
TurnPageTicked ==
    /\ Budget
    /\ \E s0 \in {change_image_ticked(Entered, "next", FALSE, FALSE, TryNext, TRUE)} :
         \E ui \in Answers(s0) :
            \E s \in {change_image_ticked(Entered, "next", FALSE, FALSE, ui, TRUE)} :
                Becomes(s)
    /\ op' = NavOp("next_ticked", FALSE, PyNone)
    /\ steps' = steps + 1
    /\ UNCHANGED run

InitTick ==
    \E n \in 1..MaxImages, cfg \in Configs :
        \E bad \in BadSets(Names(n)) : Launch(n, cfg, FALSE, NoFile, bad)

NextTick == ClickCheckbox \/ DrawBox \/ TurnPage \/ BackupTick \/ TurnPageTicked

SpecTick == InitTick /\ [][NextTick]_vars

\* ------------------------------------------------------------ boxes removed
\* The user removes a box of the image shown through the box's context menu.
RemoveBox ==
    /\ Budget
    /\ \E id \in scene : \E s \in {contextMenuEvent(Entered, id)} : Becomes(s)
    /\ op' = NavOp("remove_box", FALSE, PyNone)
    /\ steps' = steps + 1
    /\ UNCHANGED run

InitRemove ==
    \E n \in 1..MaxImages, cfg \in Configs : Launch(n, cfg, FALSE, NoFile, {})

NextRemove == ClickCheckbox \/ DrawBox \/ RemoveBox \/ TurnPage \/ Save

SpecRemove == InitRemove /\ [][NextRemove]_vars

\* ------------------------------------------------------------ the backup directory's other files
\* A file in the backup directory that no backup tick wrote, under a name that
\* sorts before "auto_backup_" (README, annotations.json, a folder): the
\* backups are named by their timestamps 1, 2, ...
OtherFile == 0

OtherDirs == {NoDir, [exists |-> TRUE, files |-> [k \in {OtherFile} |-> NoFile]]}

InitOther ==
    \E n \in 1..MaxImages, cfg \in Configs, m \in 1..MaxBackups, dir \in OtherDirs :
        \E s \in {Construct(cfg, FALSE, Names(n), NoFile, NoSettings, {}, TryNext)} :
            /\ Starts([s EXCEPT !.max_backups = m, !.backup_dir = dir])
            /\ op = [name |-> "init", prev_failed |-> FALSE, go_to_index |-> PyNone,
                     from |-> 0]
            /\ run = NewRun(s)
            /\ steps = 0

NextOther == BackupTick \/ BackupTurnPage \/ StartAgain

SpecOther == InitOther /\ [][NextOther]_vars

\* ------------------------------------------------------------ the chain of load_file calls
\* MainWindow.load_file call by call.  loading counts the load_file calls that
\* have not returned: the innermost is about to read the image under the
\* cursor.  A read that fails shows the error dialog and calls
\* next_image(prev_failed=True), whose change_image calls load_file again; a
\* read that succeeds lets every pending change_image run its statements after
\* load_file.  MaxDepth stands for Python's recursion limit.
MaxDepth == 6

ReadFails(s) == CurrentFile(s) \in s.bad_files

\* MainWindow.__init__ up to its call of load_file: the tables exist, the
\* sliders, the toolbars and the checkboxes do not.
MainWindow_Tables(names, findings, bad) ==
    [Blank([checkboxes |-> findings, radiobuttons |-> <<>>,
            tristate_checkboxes |-> FALSE], FALSE, NoSettings, NoFile, bad)
        EXCEPT !.file_list = names,
               !.viewed_values = [f \in Range(names) |-> "False"],
               !.rotation = [f \in Range(names) |-> 0],
               !.notes = [f \in Range(names) |-> <<>>],
               !.checkbox_values = [f \in Range(names) |-> [c \in Range(findings) |-> 0]],
               !.bboxes = [f \in Range(names) |-> EmptyDict],
               !.loading = 1]

\* MainWindow.__init__ after load_file returned.
MainWindow_Toolbars(s) ==
    [s EXCEPT !.checkboxes = [c \in Range(Findings(s)) |-> 0],
              !.connected = TRUE, !.timer_active = TRUE]

\* The statements after load_file of the k change_image calls still pending.
RECURSIVE Unwind(_, _)
Unwind(s, k) == IF k = 0 THEN s ELSE Unwind(Then(s, MainWindow_ShowImage), k - 1)

\* load_file returns to its callers: to the pending change_image calls and, while
\* the window is constructed, to __init__, where a change_image that comes back
\* from load_file finds no sliders.
Returns(s) ==
    IF s.connected THEN [Unwind(s, s.loading - 1) EXCEPT !.loading = 0]
    ELSE IF s.loading > 1 THEN Raise([s EXCEPT !.loading = 0], "AttributeError")
    ELSE MainWindow_Toolbars([s EXCEPT !.loading = 0])

InitChain ==
    \E n \in 1..MaxImages : \E bad \in SUBSET Range(Names(n)) :
        /\ Starts(MainWindow_Tables(Names(n), <<"A">>, bad))
        /\ op = [name |-> "init", prev_failed |-> FALSE, go_to_index |-> PyNone, from |-> 0]
        /\ run = [start |-> 0, U0 |-> {}, trail |-> <<>>]
        /\ steps = 0

\* The user presses next or previous: change_image up to its call of load_file.
ChainTurn ==
    /\ WindowBudget
    /\ loading = 0
    /\ \E direction \in {"next", "previous"} :
          /\ Becomes([MainWindow_Leave(Entered, direction, FALSE) EXCEPT !.loading = 1])
          /\ WindowDid(direction)

\* The read fails: the error dialog, then next_image(prev_failed=True) up to
\* its call of load_file.
LoadFails ==
    /\ exception = NoException
    /\ loading \in 1..(MaxDepth - 1)
    /\ ReadFails(Self)
    /\ Becomes([MainWindow_Leave(ShowDialog(Entered, "Failed to load file"), "next", TRUE)
                   EXCEPT !.loading = @ + 1])
    /\ UNCHANGED <<op, run, steps>>

\* The read fails with no room left on the stack.
RecursionLimit ==
    /\ exception = NoException
    /\ loading = MaxDepth
    /\ ReadFails(Self)
    /\ Becomes(Raise([Entered EXCEPT !.loading = 0], "RecursionError"))
    /\ UNCHANGED <<op, run, steps>>

LoadSucceeds ==
    /\ exception = NoException
    /\ loading >= 1
    /\ ~ReadFails(Self)
    /\ Becomes(Returns(Self))
    /\ UNCHANGED <<op, run, steps>>

NextChain == ChainTurn \/ LoadFails \/ RecursionLimit \/ LoadSucceeds

SpecChain == InitChain /\ [][NextChain]_vars

\* ------------------------------------------------------------ windows.py: SetupWindow
\* setup.images is the image listing of the folder folder_label names, json_label
\* the document at the path json_label shows (NoFile when that is not a file), and
\* json_path the document at the settings' "json_path".
SetOk(s, enabled) == [s EXCEPT !.setup.ok_enabled = enabled]

\* A JSON document whose top level is a list of entries.
IsList(data) == "entries" \in DOMAIN data

\* windows.load_json_filenames_findings
load_json_filenames_findings(data) ==
    LET at == DOMAIN data.entries
    IN  [filenames |-> {data.entries[i].filename : i \in at},
         cboxes |-> UNION {DOMAIN data.entries[i].checkboxes : i \in at},
         cbox_values |-> UNION {{data.entries[i].checkboxes[c] :
                                    c \in DOMAIN data.entries[i].checkboxes} : i \in at},
         radiobs |-> UNION {DOMAIN data.entries[i].radiobuttons : i \in at}]

\* SetupWindow.check_config_json_compatibility
check_config_json_compatibility(s, found) ==
    IF ~s.config.tristate_checkboxes /\ 1 \in found.cbox_values
    THEN [self |-> ShowDialog(s, "tristate conflict"), ret |-> FALSE]
    ELSE IF \E cbox \in found.cboxes : cbox \notin Range(s.config.checkboxes)
    THEN [self |-> ShowDialog(s, "checkbox conflict"), ret |-> FALSE]
    ELSE IF \E rb \in found.radiobs : rb \notin Range(GroupTitles(s))
    THEN [self |-> ShowDialog(s, "radiobutton conflict"), ret |-> FALSE]
    ELSE [self |-> s, ret |-> TRUE]

\* SetupWindow.check_json_image_compatibility
check_json_image_compatibility(s, filenames) ==
    IF s.setup.is_dir
    THEN IF \E file \in filenames : file \notin Range(s.setup.images)
         THEN [self |-> ShowDialog(s, "image conflict"), ret |-> FALSE]
         ELSE [self |-> s, ret |-> TRUE]
    ELSE [self |-> ShowDialog(s, "no image directory"), ret |-> FALSE]

\* SetupWindow.check_json_compatibility(self.json_label.text()); ret is the
\* truth value of what it returns, None when a check of an existing file fails.
CheckConfig(r, found) ==
    IF ~r.ret THEN r
    ELSE LET c == check_config_json_compatibility(r.self, found)
         IN  IF c.ret THEN [self |-> SetOk(c.self, TRUE), ret |-> TRUE] ELSE c

check_json_compatibility(s) ==
    IF s.setup.json_label # NoFile
    THEN IF ~IsList(s.setup.json_label) THEN [self |-> Raise(s, "TypeError"), ret |-> FALSE]
         ELSE CheckConfig(check_json_image_compatibility(
                              s, load_json_filenames_findings(s.setup.json_label).filenames),
                          load_json_filenames_findings(s.setup.json_label))
    ELSE IF s.setup.new_json THEN [self |-> SetOk(s, TRUE), ret |-> TRUE]
    ELSE [self |-> SetOk(s, FALSE), ret |-> FALSE]

\* QDialog.accept, reached through super().accept()
Accepted(s) == [s EXCEPT !.setup.result = "accepted"]

\* SetupWindow.on_accepted
RefusedAccept(r) ==
    IF ~Ok(r.self) THEN r.self
    ELSE IF ~r.ret THEN SetOk(r.self, FALSE)
    ELSE Accepted(r.self)

on_accepted(s) ==
    IF ~s.setup.is_dir THEN SetOk(ShowDialog(s, "no image directory"), FALSE)
    ELSE IF s.setup.new_json THEN Accepted(s)
    ELSE RefusedAccept(check_json_compatibility(s))

\* SetupWindow.on_json_checkbox_changed
OkFromCheck(r) == IF ~Ok(r.self) THEN r.self ELSE SetOk(r.self, r.ret)

on_json_checkbox_changed(s, checked) ==
    IF checked
    THEN SetOk([s EXCEPT !.setup.json_label = NoFile, !.setup.new_json = TRUE], TRUE)
    ELSE OkFromCheck(check_json_compatibility(
             [s EXCEPT !.setup.json_label = s.setup.json_path, !.setup.new_json = FALSE]))

\* SetupWindow.select_json, the file dialog answered with the document data
select_json(s, data) ==
    SetOk([s EXCEPT !.setup.json_label = data, !.setup.json_path = data], TRUE)

\* SetupWindow.select_image_folder, the folder dialog answered with a folder of
\* the images listed: a folder without images is answered with a message and the
\* dialog is shown again, which the user then cancels.
select_image_folder(s, images) ==
    IF images = <<>> THEN ShowDialog(s, "no image files")
    ELSE LET chosen == SetOk([s EXCEPT !.setup.is_dir = TRUE, !.setup.images = images],
                             TRUE)
         IN  IF chosen.setup.new_json THEN chosen
             ELSE check_json_compatibility(chosen).self

\* QDialog.reject
reject(s) == [s EXCEPT !.setup.result = "rejected"]

\* SetupWindow.__init__ over the settings of the last session
SetupWindow(cfg, is_dir, images, data) ==
    [Blank(cfg, FALSE, NoSettings, NoFile, {}) EXCEPT
        !.setup = [is_dir |-> is_dir, images |-> images, json_label |-> data,
                   json_path |-> data, new_json |-> data = NoFile,
                   ok_enabled |-> TRUE, result |-> "open"]]

\* The application is started once the dialog was accepted: MainApp(app, settings,
\* load_progress) with load_progress the negation of the settings' "new_json".
StartMainApp(s) ==
    [Construct(s.config, ~s.setup.new_json, s.setup.images, s.setup.json_label,
               NoSettings, {}, TryNext)
        EXCEPT !.setup = s.setup]

\* The sessions files offered to the dialog: one as MainApp.save_json writes it,
\* and lists of one entry as MainWindow.save_json writes them.
ListFile(filename, cboxes, rbs) ==
    [entries |-> <<[filename |-> filename, viewed |-> "True", rotation |-> 0,
                    notes |-> <<>>, checkboxes |-> cboxes, bboxes |-> EmptyDict,
                    radiobuttons |-> rbs]>>]

OneValue(k, v) == Put(EmptyDict, k, v)

ListFiles ==
    {ListFile(f, c, r) :
        f \in {"a.png", "e.png"},
        c \in {EmptyDict, OneValue("A", 1), OneValue("A", 2), OneValue("C", 2)},
        r \in {EmptyDict, OneValue("G", 0), OneValue("H", 0)}}

SetupConfigs ==
    Configs \cup {[checkboxes |-> <<"A">>, radiobuttons |-> <<>>,
                   tristate_checkboxes |-> FALSE]}

SetupJsons(cfg) == ListFiles \cup {NoFile} \cup ViewedOnlyFiles(cfg, Names(1))

SetupOp(name) == [name |-> name, prev_failed |-> FALSE, go_to_index |-> PyNone, from |-> 0]

InitSetup ==
    \E cfg \in SetupConfigs, is_dir \in BOOLEAN, n \in 0..MaxImages :
        \E data \in SetupJsons(cfg) :
            /\ is_dir \/ n = 0
            /\ Starts(SetupWindow(cfg, is_dir, Names(n), data))
            /\ op = SetupOp("setup")
            /\ run = NewRun(Blank(cfg, FALSE, NoSettings, NoFile, {}))
            /\ steps = 0

DialogOpen == setup.result = "open" /\ exception = NoException

SetupStep(name, s) ==
    /\ Becomes(s)
    /\ op' = SetupOp(name)
    /\ UNCHANGED <<run, steps>>

SelectJson ==
    DialogOpen /\ \E data \in SetupJsons(config) \ {NoFile} :
                      SetupStep("select_json", select_json(Entered, data))

SelectFolder ==
    DialogOpen /\ \E n \in 0..MaxImages :
                      SetupStep("select_image_folder", select_image_folder(Entered, Names(n)))

Tick ==
    DialogOpen /\ SetupStep("tick", on_json_checkbox_changed(Entered, ~setup.new_json))

PressOk == DialogOpen /\ setup.ok_enabled /\ SetupStep("ok", on_accepted(Entered))

PressCancel == DialogOpen /\ SetupStep("cancel", reject(Entered))

StartApp ==
    /\ setup.result = "accepted"
    /\ op.name # "launch"
    /\ SetupStep("launch", StartMainApp(Self))

NextSetup == SelectJson \/ SelectFolder \/ Tick \/ PressOk \/ PressCancel \/ StartApp

SpecSetup == InitSetup /\ [][NextSetup]_vars

\* ------------------------------------------------------------ navigation claims
\* The record an operation moved away from, and the step of one operation.
Outgoing == PyAt(file_list, op.from)

N == Len(file_list)

\* The offsets k, counted circularly from the cursor, of the records that are
\* NotViewed once the current one has been marked.
UnviewedOffsets ==
    {k \in 1..(N - 1) : ~Truthy(viewed_values[PyAt(file_list, (current_index + k) % N)])}

Min(S) == CHOOSE x \in S : \A y \in S : x <= y

\* C1: after every navigation operation the record that was left is Viewed, or
\* Failed when next_image was called with prev_failed = True.
C1_OutgoingMarked ==
    (op.name # "init" /\ current_index # op.from) =>
        viewed_values[Outgoing] = IF op.name = "next" /\ op.prev_failed THEN FAILED ELSE "True"

\* C2: next_unrated_image moves the cursor to the first NotViewed record met
\* scanning circularly from current + 1; when there is none the cursor stays and
\* the "All Images Viewed" message is shown.
C2_NextUnrated ==
    [][op'.name = "next_unrated" =>
          IF UnviewedOffsets # {}
          THEN current_index' = (current_index + Min(UnviewedOffsets)) % N
          ELSE /\ current_index' = current_index
               /\ \E i \in DOMAIN dialogs' : dialogs'[i] = "All Images Viewed"]_vars

\* A next_unrated_image that wrapped round the end of the list to a NotViewed record.
C2_Witness ==
    /\ op.name = "next_unrated"
    /\ current_index < op.from
    /\ current_index > 0
    /\ exception = NoException
    /\ viewed_values[CurrentFile(Self)] = "False"

\* C4: once every record is Viewed or Failed, next_unrated_image changes neither
\* the cursor nor any field of any record.
C4_NoOpWhenAllViewed ==
    [][(op'.name = "next_unrated" /\ \A f \in Range(file_list) : Truthy(viewed_values[f])) =>
          /\ current_index' = current_index
          /\ viewed_values' = viewed_values
          /\ rotation' = rotation
          /\ notes' = notes
          /\ checkbox_values' = checkbox_values
          /\ radiobutton_values' = radiobutton_values]_vars

\* The NotViewed records of the run's start other than the one the cursor was on.
Start == PyAt(file_list, run.start)

ToVisit == run.U0 \ {Start}

\* Where the cursor was before the i-th call of the run, and how many calls of
\* the run moved the cursor to f.
Before(i) == IF i = 1 THEN run.start ELSE run.trail[i - 1]

Landings(f) ==
    Cardinality({i \in DOMAIN run.trail :
                    run.trail[i] # Before(i) /\ PyAt(file_list, run.trail[i]) = f})

AllViewed == \A f \in Range(file_list) : Truthy(viewed_values[f])

\* C3: when every image decodes, repeated next_unrated_image calls make the cursor
\* land exactly once on every record that was NotViewed when they started, after
\* which every record is Viewed or Failed.
C3_LandsOnEachUnviewed ==
    (run.trail # <<>> /\ AllViewed) => \A f \in run.U0 : Landings(f) = 1

\* C3 as the code has it: the cursor lands exactly once on every record that was
\* NotViewed other than the one it started on, and on no other record; the record
\* it started on is marked by the first call and never landed on.  One call after
\* the last landing every record is Viewed or Failed, and from then on the calls
\* leave the cursor where it is.
C3_LandsOnEachOtherUnviewed ==
    LET m == Cardinality(ToVisit)
        calls == Len(run.trail)
    IN  /\ \A f \in ToVisit : Landings(f) <= 1
        /\ \A f \in Range(file_list) \ ToVisit : Landings(f) = 0
        /\ calls > m =>
              /\ AllViewed
              /\ \A f \in ToVisit : Landings(f) = 1
              /\ \A i \in (m + 1)..calls : run.trail[i] = Before(i)

\* The only NotViewed record lay before the cursor, and next_unrated_image was
\* called twice more than was needed to visit it.
C3_Witness ==
    /\ N = 3
    /\ run.start = 2
    /\ ToVisit = {"b.png"}
    /\ run.trail = <<1, 1, 1>>
    /\ exception = NoException

\* A new session over three images on which nothing but next_unrated_image was called.
Fresh3 == ~loaded /\ N = 3 /\ run.start = 0 /\ run.U0 = Range(file_list)

\* C5: in a new session over three images, three next_unrated_image calls leave
\* the cursor at 1, 2, 0 and all three records Viewed.
C5_Sequence120 ==
    (Fresh3 /\ Len(run.trail) >= 3) =>
        /\ SubSeq(run.trail, 1, 3) = <<1, 2, 0>>
        /\ Len(run.trail) = 3 => \A f \in Range(file_list) : viewed_values[f] = "True"

\* C5 as the code has it: in a new session over three decodable images, three
\* next_unrated_image calls leave the cursor at 1, 2, 2 (the third finds nothing
\* NotViewed and shows "All Images Viewed") and all three records Viewed.
C5_Sequence122 ==
    (Fresh3 /\ Len(run.trail) >= 3) =>
        /\ SubSeq(run.trail, 1, 3) = <<1, 2, 2>>
        /\ Len(run.trail) = 3 =>
              /\ \A f \in Range(file_list) : viewed_values[f] = "True"
              /\ \E i \in DOMAIN dialogs : dialogs[i] = "All Images Viewed"

C5_Witness == Fresh3 /\ Len(run.trail) = 3 /\ exception = NoException

\* C6: next_image moves the cursor to (current + 1) mod N and previous_image to
\* (current - 1 + N) mod N.
C6_NextPrevious ==
    [][/\ op'.name = "next" => current_index' = (current_index + 1) % N
       /\ op'.name = "previous" => current_index' = (current_index - 1 + N) % N]_vars

\* A next_image from the last image of a list of three that showed the first one.
C6_Witness ==
    /\ op.name = "next"
    /\ N = 3
    /\ op.from = 2
    /\ current_index = 0
    /\ exception = NoException

\* C7: change_image("go_to", i) moves the cursor to i when 0 <= i < N; for any
\* other i it raises an index error and leaves the cursor where it was.
C7_GoToRangeChecked ==
    op.name = "go_to" =>
        IF 0 <= op.go_to_index /\ op.go_to_index < N
        THEN current_index = op.go_to_index
        ELSE exception = "IndexError" /\ current_index = op.from

\* ------------------------------------------------------------ save and load claims
\* The last operation wrote the session file, and the entry it wrote for f.
Saved == op.name = "save"

EntryOf(f) == json_file.files[PyIndexOf(file_list, f) + 1]

Configured == Range(config.checkboxes)

Titles == Range(GroupTitles(Self))

\* The session read back from the file just written.
Reloaded == load_from_json(Blank(config, TRUE, settings, json_file, bad_files), json_file)

\* The label tables hold exactly the configured keys for every image.
ValidSession ==
    \A f \in Range(file_list) :
        /\ DOMAIN Get(checkbox_values, f, EmptyDict) = Configured
        /\ DOMAIN Get(radiobutton_values, f, EmptyDict) = Titles

BoxRects(per_finding) ==
    [k \in {x \in DOMAIN per_finding : per_finding[x] # <<>>} |->
        [i \in DOMAIN per_finding[k] |-> per_finding[k][i].rect]]

\* Everything of f's record but the checkbox values is read back as it was saved.
SameButCheckboxes(L, f) ==
    /\ L.viewed_values[f] = viewed_values[f]
    /\ L.rotation[f] = rotation[f]
    /\ L.notes[f] = notes[f]
    /\ Get(L.radiobutton_values, f, EmptyDict) = Get(radiobutton_values, f, EmptyDict)
    /\ BoxRects(L.bboxes[f]) = BoxRects(bboxes[f])

SameCheckboxes(L, f) ==
    Get(L.checkbox_values, f, EmptyDict) = Get(checkbox_values, f, EmptyDict)

\* C8: loading the file a save wrote gives back, for every image, Failed ones
\* included, the viewed status, rotation, notes, checkbox values, radiobutton
\* selections and bounding boxes of the session that was saved.
C8_RoundTrip ==
    (Saved /\ ValidSession) =>
        /\ Ok(Reloaded)
        /\ Reloaded.file_list = file_list
        /\ \A f \in Range(file_list) :
              SameButCheckboxes(Reloaded, f) /\ SameCheckboxes(Reloaded, f)

\* C8 as the code has it: everything is read back as it was saved except the
\* checkbox values of a Failed record, which are read back as "FAIL" for every
\* configured checkbox.
C8_RoundTripButFailed ==
    (Saved /\ ValidSession) =>
        /\ Ok(Reloaded)
        /\ Reloaded.file_list = file_list
        /\ \A f \in Range(file_list) :
              /\ SameButCheckboxes(Reloaded, f)
              /\ viewed_values[f] # FAILED => SameCheckboxes(Reloaded, f)
              /\ viewed_values[f] = FAILED =>
                    Get(Reloaded.checkbox_values, f, EmptyDict) = [c \in Configured |-> FAIL]

\* A saved session with a Failed record, a box drawn and an image rotated.
C8_Witness ==
    /\ Saved
    /\ ValidSession
    /\ Configured # {}
    /\ \E f \in Range(file_list) : viewed_values[f] = FAILED
    /\ \E f \in Range(file_list) : rotation[f] # 0
    /\ \E f \in Range(file_list) : BoxRects(bboxes[f]) # EmptyDict

\* C9: save writes "FAIL" for every configured checkbox of a Failed record,
\* whatever is stored, and the stored value for every other record.
C9_FailWrittenForFailed ==
    Saved =>
        \A f \in Range(file_list) : \A cbox \in Configured :
            IF viewed_values[f] = FAILED THEN EntryOf(f).checkboxes[cbox] = FAIL
            ELSE cbox \in DOMAIN checkbox_values[f] =>
                     EntryOf(f).checkboxes[cbox] = checkbox_values[f][cbox]

\* A Failed record with a checkbox stored as 2 was saved.
C9_Witness ==
    /\ Saved
    /\ \E f \in Range(file_list) : \E cbox \in Configured :
          /\ viewed_values[f] = FAILED
          /\ Get(checkbox_values[f], cbox, 0) = 2
          /\ EntryOf(f).checkboxes[cbox] = FAIL

\* C10: in a session loaded from a file, every record's checkbox keys are among
\* config.checkboxes and its radiobutton keys among the configured group titles.
C10_KeysConfigured ==
    loaded =>
        /\ \A f \in DOMAIN checkbox_values : DOMAIN checkbox_values[f] \subseteq Configured
        /\ \A f \in DOMAIN radiobutton_values : DOMAIN radiobutton_values[f] \subseteq Titles

\* ------------------------------------------------------------ session claims
\* The boxes of file f as the session holds them: the image on screen has the
\* boxes of the view, every other image the boxes kept for it.
BoxesOf(f) == IF f = PyAt(file_list, current_index) THEN rect_items ELSE bboxes[f]

\* The annotation record of every image; a table without an entry for the image
\* shows as a value no entry can have.
Records ==
    [f \in Range(file_list) |->
        [bboxes |-> BboxOut(BoxesOf(f)),
         rotation |-> Get(rotation, f, PyNone),
         viewed |-> Get(viewed_values, f, "missing"),
         notes |-> Get(notes, f, <<PyNone>>),
         checkboxes |-> Get(checkbox_values, f, NoFile),
         radiobuttons |-> Get(radiobutton_values, f, NoFile)]]

\* C11: a save leaves every record (boxes, rotation, viewed status, notes, label
\* values) and the cursor as they were, and a save that directly follows a save
\* writes the content the first one wrote.
C11_SaveChangesNothing ==
    [][op'.name = "save" =>
          /\ Records' = Records
          /\ current_index' = current_index
          /\ (op.name = "save" => json_file' = json_file)]_vars

\* The rectangles the user marked, per finding, in the unrotated image.
UnrotatedOut(per_finding) ==
    [k \in {x \in DOMAIN per_finding : per_finding[x] # <<>>} |->
        [i \in DOMAIN per_finding[k] |-> per_finding[k][i].unrotated]]

\* C12: the boxes a save writes for an image, on screen or not, are the image's
\* boxes in the frame of the unrotated image.
C12_SavedUnrotated ==
    op.name = "save" =>
        \A i \in DOMAIN file_list :
            json_file.files[i].bboxes = UnrotatedOut(BoxesOf(file_list[i]))

\* The timestamps of the backups in the directory.
Kept == DOMAIN backup_dir.files

\* C13: after a backup tick the directory holds at most max_backups backups, each
\* of them newer than every backup of the session that is gone; with
\* max_backups = 2, from the 3rd tick on it holds exactly the last two.
C13_NewestKept ==
    op.name = "backup" =>
        /\ Cardinality(Kept) <= max_backups
        /\ \A gone \in Range(backup_files) \ Kept : \A t \in Kept : gone < t
        /\ (max_backups = 2 /\ Len(backup_files) >= 3 =>
               Kept = {backup_files[Len(backup_files)], backup_files[Len(backup_files) - 1]})

\* C14: a backup tick the file system refuses leaves the session running, with
\* the records, the cursor and the directory as they were.
C14_RefusedTickHarmless ==
    [][op'.name = "backup_refused" =>
          /\ exception' = NoException
          /\ ~app_quit' /\ ~window_closed'
          /\ Records' = Records
          /\ current_index' = current_index
          /\ backup_dir' = backup_dir]_vars

\* C15: a close request answered "Yes" closes the window exactly when the
\* handler saved: after the save to the session's file or through an accepted
\* Save As it is closed, after a cancelled Save As it stays open.
C15_ClosedIffSaved ==
    (op.name \in {"close", "exit"} /\ op.answer = "Yes") =>
        ((window_closed \/ app_quit) <=> op.saved)

\* C16: a close request answered "Cancel", from the window manager or from the
\* Exit action, leaves the timer running, the signals connected, the application
\* running and the session as it was.
C16_CancelTearsNothingDown ==
    [][(op'.name \in {"close", "exit"} /\ op'.answer = "Cancel") =>
          /\ timer_active' = timer_active
          /\ connected' = connected
          /\ ~app_quit' /\ ~window_closed'
          /\ Records' = Records
          /\ current_index' = current_index]_vars

\* C17: in a session that runs, every image of the file list has its entry in
\* each per-image table, whatever the config defines, and a save meets no
\* missing entry.
C17_OneRecordEach ==
    /\ exception = NoException =>
          \A f \in Range(file_list) :
              /\ f \in DOMAIN viewed_values /\ f \in DOMAIN rotation /\ f \in DOMAIN notes
              /\ f \in DOMAIN checkbox_values /\ f \in DOMAIN radiobutton_values
              /\ f \in DOMAIN bboxes
    /\ op.name = "save_refused" => exception = NoException

\* ------------------------------------------------------------ start-up claims
\* The dialog was accepted and the application constructed over its choices.
Launched == op.name = "launch"

\* C18: a session created on a folder without image files ends in the
\* empty-directory error, shown by the dialog, and no session with an empty
\* image list runs.
C18_EmptyFolderRefused ==
    (Launched /\ setup.images = <<>>) =>
        (/\ exception = NoException
         /\ \E i \in DOMAIN dialogs : dialogs[i] = "no image files"
         /\ file_list # <<>>)

\* The session file shown in the dialog passes the compatibility check of the
\* folder and the configuration.
Compatible ==
    /\ setup.json_label # NoFile
    /\ IsList(setup.json_label)
    /\ setup.is_dir
    /\ \A i \in DOMAIN setup.json_label.entries :
         LET entry == setup.json_label.entries[i]
         IN  /\ entry.filename \in Range(setup.images)
             /\ DOMAIN entry.checkboxes \subseteq Range(config.checkboxes)
             /\ DOMAIN entry.radiobuttons \subseteq Titles
             /\ config.tristate_checkboxes
                    \/ \A c \in DOMAIN entry.checkboxes : entry.checkboxes[c] # 1

\* C19: the dialog is accepted for a saved session only when the session file is
\* compatible with the configuration and the folder; until then the dialog stays
\* open (or is cancelled) and the application keeps running.
C19_OnlyCompatibleEnters ==
    /\ (setup.result = "accepted" /\ ~setup.new_json) => Compatible
    /\ (setup.result \in {"open", "rejected"}) => exception = NoException

\* ------------------------------------------------------------ decode failures
\* The last operation was a navigation during which an image failed to decode,
\* and the user did not choose to quit.
DecodeFailed ==
    /\ op.name \in {"previous", "next", "next_unrated", "go_to"}
    /\ \E i \in DOMAIN dialogs : dialogs[i] = "Failed to load file"
    /\ ~should_quit

\* C20: after a navigation during which an image failed to decode, the image is
\* marked Failed, the cursor is on another image, one that decodes, and the
\* session is still running.
C20_FailedDecodeAdvances ==
    (DecodeFailed /\ Range(file_list) \ bad_files # {}) =>
        (/\ exception = NoException
         /\ \E f \in bad_files : viewed_values[f] = FAILED
         /\ CurrentFile(Self) \notin bad_files)

\* ------------------------------------------------------------ rotation
Quarters == {0, 90, 180, 270}

\* The same rotation handler run four times in a row.
FourTimes(s, turn(_)) == turn(turn(turn(turn(s))))

\* C21: every stored rotation is one of 0, 90, 180, 270; rotate_image_right adds
\* 90 and rotate_image_left adds 270 (-90) modulo 360 to the rotation of the image
\* shown and to no other; four rotations in the same direction give the rotation
\* they started from.
C21_QuarterTurns ==
    [][/\ \A f \in DOMAIN rotation' : rotation'[f] \in Quarters
       /\ RotateRight =>
            rotation' = [rotation EXCEPT ![CurrentFile(Self)] = (@ + 90) % 360]
       /\ RotateLeft =>
            rotation' = [rotation EXCEPT ![CurrentFile(Self)] = (@ + 270) % 360]
       /\ Alive' =>
            /\ FourTimes(Self', rotate_image_right).rotation = rotation'
            /\ FourTimes(Self', rotate_image_left).rotation = rotation']_vars

C21_Witness == op.name = "edit" /\ rotation[CurrentFile(Self)] = 180

\* ------------------------------------------------------------ resume
\* The index the persisted last file and last index stand for.
LastPosition ==
    IF settings.last_file \in Range(file_list) THEN PyIndexOf(file_list, settings.last_file)
    ELSE IF settings.last_index < Len(file_list) THEN settings.last_index
    ELSE 0

\* C22: a session resumed with a persisted last file and last index starts with the
\* cursor on the index of the last file if it is in the image list, else on the
\* last index if that is in range, else on 0.
C22_ResumesAtLastPosition ==
    (/\ op.name = "load"
     /\ exception = NoException
     /\ ~should_quit
     /\ {"last_file", "last_index"} \subseteq DOMAIN settings) =>
        current_index = LastPosition

\* ------------------------------------------------------------ ticks and navigation
\* The snapshot the tick of this step wrote.
Snapshot == backup_dir.files[clock]

\* C23: a backup tick, also one that fires while a navigation waits in its
\* "All Images Viewed" or load-error dialog, leaves the boxes of every image as
\* they were before the step and writes them to its snapshot.
C23_TickKeepsBoxes ==
    [][(/\ op'.name \in {"backup", "next_ticked"}
        /\ clock' # clock
        /\ exception' = NoException) =>
            \A i \in DOMAIN file_list :
                /\ Records'[file_list[i]].bboxes = Records[file_list[i]].bboxes
                /\ Snapshot'.files[i].bboxes = Records[file_list[i]].bboxes]_vars

\* ------------------------------------------------------------ the resumed image list
\* The images of the loaded session: every image has an entry in the tables.
SessionImages == DOMAIN viewed_values

\* C24: the image list of a resumed session holds exactly the images of the
\* session, each once, and no step after the resume changes the list.
C24_ReorderKeepsImages ==
    [][(loaded /\ exception = NoException) =>
          /\ Range(file_list) = SessionImages
          /\ Len(file_list) = Cardinality(SessionImages)
          /\ file_list' = file_list]_vars

\* C25: after the start or resume of a session and after every navigation the
\* cursor is an index of the image list, 0 <= current_index < N, and no operation
\* ends in the IndexError of a cursor outside the list.
C25_CursorInRange ==
    /\ exception # "IndexError"
    /\ exception = NoException => (0 <= current_index /\ current_index < Len(file_list))

\* ------------------------------------------------------------ failed records
\* C26: the record of an image that cannot be decoded, once marked Failed, is
\* still Failed after every later operation.
C26_FailedStays ==
    [][\A f \in bad_files :
          (viewed_values[f] = FAILED /\ exception' = NoException) =>
              viewed_values'[f] = FAILED]_vars

\* ------------------------------------------------------------ boxes removed
\* C27: a box removed through its context menu is no longer among the boxes of
\* the image's record, the boxes a save or backup writes and a later visit shows:
\* the record holds the boxes it held before, less the box removed.
C27_RemovedBoxLeavesRecord ==
    [][op'.name = "remove_box" =>
          IdsOf(BoxesOf(CurrentFile(Self)))' =
              IdsOf(BoxesOf(CurrentFile(Self))) \ (scene \ scene')]_vars

C30_OnlyBackupsRemoved ==
    [][op'.name \in {"backup", "backup_refused"} =>
          /\ Cardinality(Kept \ Kept') <= 1
          /\ OtherFile \notin Kept \ Kept']_vars

\* ------------------------------------------------------------ the chain ends
\* C29: the chain of load_file calls that decode failures set off is finite, also
\* when no image of the directory can be decoded: it never holds more calls
\* than one for every image and one for the image it started from, and it
\* never ends by exhausting the stack.
C29_ChainEnds ==
    /\ loading <= Len(file_list) + 1
    /\ exception # "RecursionError"

\* The same for the directories in which some image can be decoded.
C29_ChainEndsIfOneDecodes ==
    ~(Range(file_list) \subseteq bad_files) => C29_ChainEnds
====
